---- MODULE Spec2Model ----
(***************************************************************************)
(* A model of webpack-cli's configuration resolution engine                *)
(* (packages/webpack-cli/src/webpack-cli.ts): loadConfig with its explicit *)
(* and default loads, named selection, extends resolution and merge; the   *)
(* command registry (makeCommand); the option compiler (makeOption) and    *)
(* the unwrapping of a configuration module's export (loadConfigByPath).   *)
(***************************************************************************)
EXTENDS Integers, Sequences, FiniteSets, TLC

VARIABLES
    \* ---- loadConfig ----
    pc,         \* position inside loadConfig
    disk,       \* the configuration files that exist
    heap,       \* the objects: identity -> [name, ext, from]
    cli,        \* the `options` argument of loadConfig
    pending,    \* indices of the explicit loads still in flight
    doneOrder,  \* the order in which the explicit loads completed
    options,    \* config.options: [isArray, items (identities), key]
    ledger,     \* config.path: identity -> list of file paths
    res,        \* one record per resolveExtends call chain
    log,        \* what logger.error received
    exitCode,   \* the code process.exit was called with: {} or {code}
    mergeCalls, \* calls of webpack-merge made by the --merge step
    \* ---- makeOption and the parse of the option it compiled ----
    optPc,      \* "idle", "start", "compiled"
    optDef,     \* the option handed to makeOption
    cmdOpts,    \* the options makeOption added to the command
    optValue,   \* the value commander holds for the main option
    skipDefault,\* the closure variable of the argParser
    supplied,   \* the values given on the command line so far
    \* ---- makeCommand ----
    commands,   \* program.commands
    forHelp,    \* program.forHelp
    installed,  \* the packages checkPackageExists finds
    strictCommander, \* commander refuses a name or alias another command has
    cmdCalls,   \* the makeCommand calls made
    lastCall,   \* the last makeCommand call and how it ended
    providerCalls, \* invocations of a deferred options provider
    cmdExit,    \* the code process.exit was called with: {} or {code}
    \* ---- loadConfigByPath: the unwrapping of a module's export ----
    uwPc,       \* "idle", "module", "start", "array", "single", "returned",
                \* "exit", "thrown"
    uwExport,   \* what the module exports
    uwOptions,  \* the local `options`
    uwStage,    \* per element (or for the single value): what it awaits
    uwInvoked,  \* the functions invoked, with their arguments
    uwExit,     \* the code process.exit was called with: {} or {code}
    uwLog,      \* what logger.error received
    \* ---- tryRequireThenImport, as loadConfigByPath calls it ----
    imPc,       \* "idle", "start", "importing", "returned", "thrown", "exit"
    imEnv,      \* the module type and what require and import will do
    imTried,    \* the loaders tried, in order
    imLog,      \* what logger.error received
    imExit,     \* the code process.exit was called with: {} or {code}
    \* ---- loadCommandByName for an external command, and the re-parse ----
    exPc,       \* "idle", "start", "install", "load", "apply", "returned",
                \* "ran", "exit"
    exEnv,      \* allowToInstall and what the environment will do
    exRegistered, \* the command's apply registered it
    exPrompted, \* the user was asked to install the package
    exLog,      \* what logger.error received
    exExit,     \* the code process.exit was called with: {} or {code}
    \* ---- buildConfig: the reconciliation of the parsed options ----
    bcPc,       \* "idle", "start", "built", "exit"
    bcOptions,  \* the parsed options, in Object.keys order
    bcItem,     \* the target configuration: core flag name -> value
    bcCalls,    \* the `values` of each processArguments call
    bcProblems, \* what processArguments returned: null or the problems
    bcLog,      \* what logger.error received
    bcExit,     \* the code process.exit was called with: {} or {code}
    \* ---- the type parser of the env option ----
    envArgs,    \* the --env values parsed so far, in order
    envBefore,  \* `previous` as it was before the last value was parsed
    envPrevious, \* `previous`: path -> what it holds
    envThrown,  \* the parser threw
    \* ---- buildConfig: the default cache options ----
    defaultConfig, \* identity -> cache.buildDependencies.defaultConfig
    \* ---- runWebpack and createCompiler ----
    rwPc,       \* "idle", "start", "createCompiler", "loadConfig", "buildConfig",
                \* "webpack", "running", "exit"
    rwIn,       \* the command, the parsed options, the configuration file
    rwOptions,  \* options.watch and options.isWatchingLikeCommand
    rwArgv,     \* options.argv: its watch and its env
    rwNodeEnv,  \* process.env.NODE_ENV
    rwTrace,    \* the steps of createCompiler, in the order they started
    rwFnCalls,  \* the calls of the configuration function
    rwItem,     \* the configuration: its watch and its mode
    rwCompiler, \* the options the compiler was created with
    rwLog,      \* what the logger received
    rwForce,    \* needForceShutdown
    rwSignals,  \* the signals delivered so far
    rwCloseCalls, \* the number of calls of compiler.close
    rwClosing,  \* a compiler.close is under way
    rwExit,     \* the code process.exit was called with: {} or {code}
    \* ---- run: the root action of the program ----
    rootPc,     \* "idle", "parse", "root", "load", "ran", "exit"
    rootIn,     \* the command line and what loading the command gives
    rootArgs,   \* the arguments of the parseAsync under way
    isInternalActionCalled,
    rootBodies, \* how many times the body of the root action was entered
    rootRegistered, \* the commands registered with the program
    rootRan,    \* the commands whose action was run, in order
    rootLog,    \* what the logger received
    rootExit,   \* the code process.exit was called with: {} or {code}
    \* ---- the action of the serve command ----
    srvPc,      \* "idle", "start", "compiler", "loop", "served", "thrown", "exit"
    srvIn,      \* the parsed options and the devServer of each configuration
    webpackCLIOptions,   \* the keys routed to the webpack options, in order
    devServerCLIOptions, \* the keys routed to the dev-server options, in order
    srvCompilers, \* the compilers: options.devServer of each
    srvQueue,   \* compilersForDevServer still to be processed
    srvCalls,   \* the `values` of each processArguments call
    srvProblems, \* what the last processArguments call returned
    usedPorts,  \* the port numbers seen so far
    servers,    \* the compilers whose server was started, in order
    srvLog,     \* what the logger received
    srvThrown,  \* the action threw the 'Unique ports' error
    srvExit     \* the code process.exit was called with: {} or {code}

loadVars == <<pc, disk, heap, cli, pending, doneOrder, options, ledger, res, log,
              exitCode, mergeCalls>>

optVars == <<optPc, optDef, cmdOpts, optValue, skipDefault, supplied>>

cmdVars == <<commands, forHelp, installed, strictCommander, cmdCalls, lastCall,
             providerCalls, cmdExit>>

uwVars == <<uwPc, uwExport, uwOptions, uwStage, uwInvoked, uwExit, uwLog>>

imVars == <<imPc, imEnv, imTried, imLog, imExit>>

exVars == <<exPc, exEnv, exRegistered, exPrompted, exLog, exExit>>

bcVars == <<bcPc, bcOptions, bcItem, bcCalls, bcProblems, bcLog, bcExit>>

envVars == <<envArgs, envBefore, envPrevious, envThrown>>

cacheVars == <<defaultConfig>>

rwVars == <<rwPc, rwIn, rwOptions, rwArgv, rwNodeEnv, rwTrace, rwFnCalls, rwItem,
            rwCompiler, rwLog, rwForce, rwSignals, rwCloseCalls, rwClosing, rwExit>>

rootVars == <<rootPc, rootIn, rootArgs, isInternalActionCalled, rootBodies, rootRegistered,
              rootRan, rootLog, rootExit>>

srvVars == <<srvPc, srvIn, webpackCLIOptions, devServerCLIOptions, srvCompilers, srvQueue,
             srvCalls, srvProblems, usedPorts, servers, srvLog, srvThrown, srvExit>>

lateVars == <<rwVars, rootVars, srvVars>>

moreVars == <<imVars, exVars, bcVars, envVars, cacheVars, lateVars>>

vars == <<loadVars, optVars, cmdVars, uwVars, moreVars>>

notLoadVars == <<optVars, cmdVars, uwVars, moreVars>>

notOptVars == <<loadVars, cmdVars, uwVars, moreVars>>

notCmdVars == <<loadVars, optVars, uwVars, moreVars>>

notUwVars == <<loadVars, optVars, cmdVars, moreVars>>

oldVars == <<loadVars, optVars, cmdVars, uwVars>>

notImVars == <<oldVars, exVars, bcVars, envVars, cacheVars, lateVars>>

notExVars == <<oldVars, imVars, bcVars, envVars, cacheVars, lateVars>>

notBcVars == <<oldVars, imVars, exVars, envVars, cacheVars, lateVars>>

notCacheVars == <<optVars, cmdVars, uwVars, imVars, exVars, bcVars, envVars, lateVars>>

earlyVars == <<oldVars, imVars, exVars, bcVars, envVars, cacheVars>>

notRwVars == <<earlyVars, rootVars, srvVars>>

notRootVars == <<earlyVars, rwVars, srvVars>>

notSrvVars == <<earlyVars, rwVars, rootVars>>

notEnvVars == <<oldVars, imVars, exVars, bcVars, cacheVars, lateVars>>

None == "none"

(***************************************************************************)
(* Each part of the program is checked under a specification of its own;   *)
(* the variables of the other parts rest in these states.                  *)
(***************************************************************************)
LoadIdle ==
    /\ pc = "idle"
    /\ disk = {}
    /\ heap = <<>>
    /\ cli = <<>>
    /\ pending = {}
    /\ doneOrder = <<>>
    /\ options = <<>>
    /\ ledger = <<>>
    /\ res = <<>>
    /\ log = <<>>
    /\ exitCode = {}
    /\ mergeCalls = 0

OptIdle ==
    /\ optPc = "idle"
    /\ optDef = <<>>
    /\ cmdOpts = <<>>
    /\ optValue = <<>>
    /\ skipDefault = TRUE
    /\ supplied = <<>>

CmdIdle ==
    /\ commands = <<>>
    /\ forHelp = FALSE
    /\ installed = {}
    /\ strictCommander = FALSE
    /\ cmdCalls = 0
    /\ lastCall = <<>>
    /\ providerCalls = 0
    /\ cmdExit = {}

UwIdle ==
    /\ uwPc = "idle"
    /\ uwExport = <<>>
    /\ uwOptions = <<>>
    /\ uwStage = <<>>
    /\ uwInvoked = <<>>
    /\ uwExit = {}
    /\ uwLog = <<>>

ImIdle ==
    /\ imPc = "idle"
    /\ imEnv = <<>>
    /\ imTried = <<>>
    /\ imLog = <<>>
    /\ imExit = {}

ExIdle ==
    /\ exPc = "idle"
    /\ exEnv = <<>>
    /\ exRegistered = FALSE
    /\ exPrompted = FALSE
    /\ exLog = <<>>
    /\ exExit = {}

OldIdle == LoadIdle /\ OptIdle /\ CmdIdle /\ UwIdle

BcIdle ==
    /\ bcPc = "idle"
    /\ bcOptions = <<>>
    /\ bcItem = <<>>
    /\ bcCalls = <<>>
    /\ bcProblems = <<>>
    /\ bcLog = <<>>
    /\ bcExit = {}

EnvIdle ==
    /\ envArgs = <<>>
    /\ envBefore = <<>>
    /\ envPrevious = <<>>
    /\ envThrown = FALSE

CacheIdle == defaultConfig = <<>>

RwIdle ==
    /\ rwPc = "idle"
    /\ rwIn = <<>>
    /\ rwOptions = <<>>
    /\ rwArgv = <<>>
    /\ rwNodeEnv = ""
    /\ rwTrace = <<>>
    /\ rwFnCalls = <<>>
    /\ rwItem = <<>>
    /\ rwCompiler = <<>>
    /\ rwLog = <<>>
    /\ rwForce = FALSE
    /\ rwSignals = <<>>
    /\ rwCloseCalls = 0
    /\ rwClosing = FALSE
    /\ rwExit = {}

RootIdle ==
    /\ rootPc = "idle"
    /\ rootIn = <<>>
    /\ rootArgs = <<>>
    /\ isInternalActionCalled = FALSE
    /\ rootBodies = 0
    /\ rootRegistered = {}
    /\ rootRan = <<>>
    /\ rootLog = <<>>
    /\ rootExit = {}

SrvIdle ==
    /\ srvPc = "idle"
    /\ srvIn = <<>>
    /\ webpackCLIOptions = <<>>
    /\ devServerCLIOptions = <<>>
    /\ srvCompilers = <<>>
    /\ srvQueue = <<>>
    /\ srvCalls = <<>>
    /\ srvProblems = <<>>
    /\ usedPorts = <<>>
    /\ servers = <<>>
    /\ srvLog = <<>>
    /\ srvThrown = FALSE
    /\ srvExit = {}

LateIdle == RwIdle /\ RootIdle /\ SrvIdle

MoreIdle == ImIdle /\ ExIdle /\ BcIdle /\ EnvIdle /\ CacheIdle /\ LateIdle

EarlyIdle == OldIdle /\ ImIdle /\ ExIdle /\ BcIdle /\ EnvIdle /\ CacheIdle

(***************************************************************************)
(* The file system the configuration files live on.  Paths are resolved    *)
(* paths.  FileA and FileB export one object, FileC an array of two.       *)
(***************************************************************************)
FileA == "webpack.config.mjs"
FileB == "b.js"
FileC == ".webpack/webpack.config.js"

Files == {FileA, FileB, FileC}

FileShape(f) == IF f = FileC THEN "array" ELSE "object"

\* the `name` field of the i-th object a file exports
FileName(f, i) ==
    CASE f = FileA -> "n1"
      [] f = FileB -> "n2"
      [] f = FileC /\ i = 1 -> "n2"
      [] OTHER -> "n1"

\* the values the `extends` field of a file's first object is drawn from
ExtChoices(f) ==
    CASE f = FileA -> {None, FileA, FileB}
      [] f = FileB -> {None, FileA, FileC}
      [] OTHER -> {None, FileC, FileA}

\* a bound on the depth of the resolveExtends recursion explored
MaxDepth == 4

(***************************************************************************)
(* Object identities.  A WeakMap is keyed by identity, so every object the *)
(* code touches has one: the objects a module exports (cached by require), *)
(* the array a module exports (i = 0), the `options` argument, the initial *)
(* `{}` and the objects webpack-merge returns.                             *)
(***************************************************************************)
Id(k, f, i, d) == [k |-> k, f |-> f, i |-> i, d |-> d]

FileObj(f, i) == Id("file", f, i, 0)
FileArr(f) == Id("file", f, 0, 0)
CliOptionsObj == Id("cliOptions", "", 0, 0)
EmptyObj == Id("empty", "", 0, 0)
ExtendedObj(i, d) == Id("extended", "", i, d)
MergedObj == Id("merged", "", 0, 0)
\* `undefined` where an object is expected
Undefined == Id("undefined", "", 0, 0)

FileObjs(f) ==
    IF FileShape(f) = "array" THEN <<FileObj(f, 1), FileObj(f, 2)>>
    ELSE <<FileObj(f, 1)>>

AllFileObjs == UNION {{FileObjs(f)[i] : i \in 1..Len(FileObjs(f))} : f \in Files}

Range(s) == {s[i] : i \in 1..Len(s)}

RECURSIVE Flatten(_)
Flatten(ss) == IF ss = <<>> THEN <<>> ELSE Head(ss) \o Flatten(Tail(ss))

Put(m, k, v) == [x \in DOMAIN m \cup {k} |-> IF x = k THEN v ELSE m[x]]

Has(m, k) == k \in DOMAIN m

NoDup(s) == \A i, j \in 1..Len(s) : s[i] = s[j] => i = j


(***************************************************************************)
(* loadConfig: its inputs.                                                 *)
(***************************************************************************)
ConfigLists ==
    {<<>>} \cup {<<f>> : f \in Files} \cup {<<f, g>> : f, g \in Files}

ConfigNameLists == {<<"n1">>, <<"n2", "n1">>, <<"n3">>, <<"n3", "n1", "n4">>}

ExtendsLists == {<<>>} \cup {<<f>> : f \in Files}

Disks == {Files, {FileB, FileC}, {FileB}}

\* `given` tells an absent configName from an array of names
ConfigNames ==
    {[given |-> FALSE, names |-> <<>>]} \cup {[given |-> TRUE, names |-> l] : l \in ConfigNameLists}

CliOptions ==
    [config : ConfigLists, configName : ConfigNames, extends : ExtendsLists, merge : BOOLEAN]

\* the default search: base file names and extensions, in priority order
DefaultBaseNames == <<"webpack.config", ".webpack/webpack.config", ".webpack/webpackfile">>

DefaultExtensions == <<".js", ".mjs", ".cjs", ".ts", ".cts", ".mts">>

DefaultConfigFiles ==
    Flatten([b \in 1..Len(DefaultBaseNames) |->
                [e \in 1..Len(DefaultExtensions) |->
                    DefaultBaseNames[b] \o DefaultExtensions[e]]])

\* a search that keeps the last candidate that exists
FoundLastDefaultConfigFile(d) ==
    LET hits == {i \in 1..Len(DefaultConfigFiles) : DefaultConfigFiles[i] \in d}
    IN  IF hits = {} THEN None
        ELSE DefaultConfigFiles[CHOOSE i \in hits : \A j \in hits : i >= j]

\* the first default candidate that exists, or None
FoundDefaultConfigFile(d) ==
    LET hits == {i \in 1..Len(DefaultConfigFiles) : DefaultConfigFiles[i] \in d}
    IN  IF hits = {} THEN None
        ELSE DefaultConfigFiles[CHOOSE i \in hits : \A j \in hits : i <= j]

(***************************************************************************)
(* loadConfigByPath, for a module that exports configuration objects: the  *)
(* module's export (require returns the cached objects) and its path.      *)
(***************************************************************************)
LoadConfigByPath(f) ==
    [options |-> [isArray |-> FileShape(f) = "array",
                  items |-> FileObjs(f),
                  key |-> IF FileShape(f) = "array" THEN FileArr(f) ELSE FileObj(f, 1)],
     path |-> f]

NewArray == Id("array", "", 0, 0)

\* the objects the modules export, with the `extends` each file declares
HeapOf(ext) ==
    [o \in AllFileObjs \cup {EmptyObj} |->
        IF o = EmptyObj THEN [name |-> None, ext |-> None, from |-> <<>>]
        ELSE [name |-> FileName(o.f, o.i),
              ext |-> IF o.i = 1 THEN ext[o.f] ELSE None,
              from |-> <<o.f>>]]

InitHeap ==
    {HeapOf(ext) : ext \in {e \in [Files -> Files \cup {None}] :
                                \A f \in Files : e[f] \in ExtChoices(f)}}

LoadInit ==
    /\ pc = "start"
    /\ cli \in CliOptions
    /\ disk \in (IF cli.config = <<>> THEN Disks ELSE {Files})
    /\ heap \in InitHeap
    /\ pending = {}
    /\ doneOrder = <<>>
    /\ options = [isArray |-> FALSE, items |-> <<EmptyObj>>, key |-> EmptyObj]
    /\ ledger = <<>>
    /\ res = <<>>
    /\ log = <<>>
    /\ exitCode = {}
    /\ mergeCalls = 0
    /\ OptIdle
    /\ CmdIdle
    /\ UwIdle
    /\ MoreIdle

Exit(msg) ==
    /\ log' = Append(log, msg)
    /\ exitCode' = {2}
    /\ pc' = "exit"

Msg(text, names) == [text |-> text, names |-> names]


(***************************************************************************)
(* loadConfig, explicit paths (lines 1921-1944): the loads are issued      *)
(* together and complete in any order; Promise.all yields the results in   *)
(* the order of the paths.                                                 *)
(***************************************************************************)
StartExplicit ==
    /\ pc = "start"
    /\ Len(cli.config) > 0
    /\ pending' = 1..Len(cli.config)
    /\ pc' = "loading"
    /\ UNCHANGED <<disk, heap, cli, doneOrder, options, ledger, res, log, exitCode, mergeCalls>>
    /\ UNCHANGED notLoadVars

LoadComplete(i) ==
    /\ pc = "loading"
    /\ i \in pending
    /\ pending' = pending \ {i}
    /\ doneOrder' = Append(doneOrder, i)
    /\ UNCHANGED <<pc, disk, heap, cli, options, ledger, res, log, exitCode, mergeCalls>>
    /\ UNCHANGED notLoadVars

\* a Promise.all that yielded its results in the order of completion
LoadedConfigsAsCompleted(paths, order) ==
    [i \in 1..Len(paths) |-> LoadConfigByPath(paths[order[i]])]

\* what Promise.all resolves to: the results in the order of the paths, whatever
\* the order in which the loads completed
LoadedConfigs(paths, order) == [i \in 1..Len(paths) |-> LoadConfigByPath(paths[i])]

\* the ledger writes of the loop of lines 1933-1943
RECURSIVE LedgerOfMany(_, _)
LedgerOfMany(lcs, led) ==
    IF lcs = <<>> THEN led
    ELSE LET lc == Head(lcs)
         IN  LedgerOfMany(Tail(lcs),
                 IF lc.options.isArray
                 THEN Put(led, CliOptionsObj, <<lc.path>>)
                 ELSE Put(led, lc.options.key, <<lc.path>>))

Assemble ==
    /\ pc = "loading"
    /\ pending = {}
    /\ LET lcs == LoadedConfigs(cli.config, doneOrder)
       IN  IF Len(lcs) = 1
           THEN /\ options' = lcs[1].options
                /\ ledger' = Put(ledger, lcs[1].options.key, <<lcs[1].path>>)
           ELSE /\ options' = [isArray |-> TRUE,
                               items |-> Flatten([i \in 1..Len(lcs) |-> lcs[i].options.items]),
                               key |-> NewArray]
                /\ ledger' = LedgerOfMany(lcs, ledger)
    /\ pc' = "select"
    /\ UNCHANGED <<disk, heap, cli, pending, doneOrder, res, log, exitCode, mergeCalls>>
    /\ UNCHANGED notLoadVars

(***************************************************************************)
(* loadConfig, default search (lines 1945-1987).                           *)
(***************************************************************************)
RECURSIVE LedgerOfItems(_, _, _)
LedgerOfItems(items, path, led) ==
    IF items = <<>> THEN led
    ELSE LedgerOfItems(Tail(items), path, Put(led, Head(items), <<path>>))

DefaultSearch ==
    /\ pc = "start"
    /\ Len(cli.config) = 0
    /\ LET found == FoundDefaultConfigFile(disk)
       IN  IF found = None
           THEN UNCHANGED <<options, ledger>>
           ELSE LET lc == LoadConfigByPath(found)
                IN  /\ options' = lc.options
                    /\ ledger' = IF lc.options.isArray
                                 THEN LedgerOfItems(lc.options.items, lc.path, ledger)
                                 ELSE Put(ledger, lc.options.key, <<lc.path>>)
    /\ pc' = "select"
    /\ UNCHANGED <<disk, heap, cli, pending, doneOrder, res, log, exitCode, mergeCalls>>
    /\ UNCHANGED notLoadVars

(***************************************************************************)
(* loadConfig, selection by name (lines 1989-2016).                        *)
(***************************************************************************)
\* a find that returned the last match
FindLastByName(items, h, n) ==
    LET hits == {i \in 1..Len(items) : h[items[i]].name = n}
    IN  IF hits = {} THEN Undefined
        ELSE items[CHOOSE i \in hits : \A j \in hits : i >= j]

\* Array.prototype.find on the `name` field: the first match, or undefined
FindByName(items, h, n) ==
    LET hits == {i \in 1..Len(items) : h[items[i]].name = n}
    IN  IF hits = {} THEN Undefined
        ELSE items[CHOOSE i \in hits : \A j \in hits : i <= j]

Found(opts, h, n) ==
    IF opts.isArray THEN FindByName(opts.items, h, n)
    ELSE IF h[opts.items[1]].name = n THEN opts.items[1] ELSE Undefined

SelectByName ==
    /\ pc = "select"
    /\ IF ~cli.configName.given
       THEN /\ pc' = "extends"
            /\ UNCHANGED <<options, log, exitCode>>
       ELSE LET names == cli.configName.names
                found == [i \in 1..Len(names) |-> Found(options, heap, names[i])]
                notFound == SelectSeq(names, LAMBDA n : Found(options, heap, n) = Undefined)
            IN  /\ options' = [isArray |-> TRUE, items |-> found, key |-> NewArray]
                /\ IF Len(notFound) > 0
                   THEN Exit(Msg("Configuration with the name was not found.", notFound))
                   ELSE /\ pc' = "extends"
                        /\ UNCHANGED <<log, exitCode>>
    /\ UNCHANGED <<disk, heap, cli, pending, doneOrder, ledger, res, mergeCalls>>
    /\ UNCHANGED notLoadVars


(***************************************************************************)
(* webpack-merge on the fields the model keeps: a scalar field takes the   *)
(* later operand's value when that operand sets it; `from` (the files an   *)
(* object was built from) is concatenated.                                 *)
(***************************************************************************)
MergeRec(x, y) ==
    [name |-> IF y.name # None THEN y.name ELSE x.name,
     ext |-> IF y.ext # None THEN y.ext ELSE x.ext,
     from |-> x.from \o y.from]

EmptyRec == [name |-> None, ext |-> None, from |-> <<>>]

RECURSIVE MergeAll(_, _)
MergeAll(recs, acc) ==
    IF recs = <<>> THEN acc ELSE MergeAll(Tail(recs), MergeRec(acc, Head(recs)))

(***************************************************************************)
(* loadConfig, extends (lines 2066-2101).  The map over config.options     *)
(* calls resolveExtends for one element after the other; each call runs    *)
(* `delete config.extends` before its first await.                         *)
(***************************************************************************)
\* `item` (the configuration resolveExtends was called for), `own` (the
\* `extends` it had then) and `loaded` (the files loaded on its behalf)
\* record the call's history
CallMergingOwn(item, h, paths) ==
    [cfg |-> item,
     paths |-> (IF h[item].ext # None THEN <<h[item].ext>> ELSE <<>>) \o paths,
     depth |-> 0, active |-> TRUE, chain |-> h[item].from,
     own |-> h[item].ext, loaded |-> <<>>, item |-> item]

Call(item, h, paths) ==
    [cfg |-> item, paths |-> paths, depth |-> 0, active |-> TRUE, chain |-> h[item].from,
     own |-> h[item].ext, loaded |-> <<>>, item |-> item]

NoCall(item, h) ==
    [cfg |-> item, paths |-> <<>>, depth |-> 0, active |-> FALSE, chain |-> h[item].from,
     own |-> h[item].ext, loaded |-> <<>>, item |-> item]

DeleteExtends(h, item) == [h EXCEPT ![item].ext = None]

RECURSIVE ExtendsCalls(_, _, _, _)
ExtendsCalls(items, h, cliExtends, calls) ==
    IF items = <<>> THEN [heap |-> h, res |-> calls]
    ELSE LET item == Head(items)
         IN  IF Len(cliExtends) > 0
             THEN ExtendsCalls(Tail(items), DeleteExtends(h, item), cliExtends,
                               Append(calls, Call(item, h, cliExtends)))
             ELSE IF h[item].ext # None
             THEN ExtendsCalls(Tail(items), DeleteExtends(h, item), cliExtends,
                               Append(calls, Call(item, h, <<h[item].ext>>)))
             ELSE ExtendsCalls(Tail(items), h, cliExtends, Append(calls, NoCall(item, h)))

StartExtends ==
    /\ pc = "extends"
    /\ IF \/ Len(cli.extends) > 0
          \/ \E i \in 1..Len(options.items) : heap[options.items[i]].ext # None
       THEN LET c == ExtendsCalls(options.items, heap, cli.extends, <<>>)
            IN  /\ heap' = c.heap
                /\ res' = c.res
                /\ pc' = "resolving"
       ELSE /\ pc' = "merge"
            /\ UNCHANGED <<heap, res>>
    /\ UNCHANGED <<disk, cli, pending, doneOrder, options, ledger, log, exitCode, mergeCalls>>
    /\ UNCHANGED notLoadVars

(***************************************************************************)
(* resolveExtends (lines 2018-2064), one level of the recursion: the loads *)
(* of this level have completed; the cycle check, the merge, the ledger    *)
(* update and the start of the next level follow.                          *)
(***************************************************************************)
Intersects(loadedPaths, prevPaths) ==
    \E i \in 1..Len(loadedPaths) : loadedPaths[i] \in Range(prevPaths)

CycleDetected(led, cfg, loadedPaths) ==
    Has(led, cfg) /\ Intersects(loadedPaths, led[cfg])

ResolveLevel(i) ==
    /\ pc = "resolving"
    /\ res[i].active
    /\ res[i].depth < MaxDepth
    /\ LET r == res[i]
           loadedConfigs == [k \in 1..Len(r.paths) |-> LoadConfigByPath(r.paths[k])]
           loadedOptions == Flatten([k \in 1..Len(r.paths) |-> loadedConfigs[k].options.items])
           loadedPaths == [k \in 1..Len(r.paths) |-> loadedConfigs[k].path]
       IN  IF CycleDetected(ledger, r.cfg, loadedPaths)
           THEN /\ Exit(Msg("Recursive configuration detected, exiting.", <<>>))
                /\ res' = [res EXCEPT ![i].loaded = r.loaded \o loadedPaths]
                /\ UNCHANGED <<heap, ledger>>
           ELSE LET merged == MergeRec(MergeAll([k \in 1..Len(loadedOptions) |->
                                                    heap[loadedOptions[k]]], EmptyRec),
                                       heap[r.cfg])
                    new == ExtendedObj(i, r.depth + 1)
                IN  /\ heap' = Put(heap, new, [merged EXCEPT !.ext = None])
                    /\ ledger' = IF Has(ledger, r.cfg)
                                 THEN Put(ledger, new, ledger[r.cfg] \o loadedPaths)
                                 ELSE ledger
                    /\ res' = [res EXCEPT ![i] =
                                 [cfg |-> new,
                                  paths |-> IF merged.ext = None THEN <<>> ELSE <<merged.ext>>,
                                  depth |-> r.depth + 1,
                                  active |-> merged.ext # None,
                                  chain |-> r.chain \o loadedPaths,
                                  own |-> r.own,
                                  item |-> r.item,
                                  loaded |-> r.loaded \o loadedPaths]]
                    /\ UNCHANGED <<pc, log, exitCode>>
    /\ UNCHANGED <<disk, cli, pending, doneOrder, options, mergeCalls>>
    /\ UNCHANGED notLoadVars

FinishExtends ==
    /\ pc = "resolving"
    /\ \A i \in 1..Len(res) : ~res[i].active
    /\ options' = [isArray |-> options.isArray,
                   items |-> [i \in 1..Len(res) |-> res[i].cfg],
                   key |-> IF options.isArray THEN NewArray ELSE res[1].cfg]
    /\ pc' = "merge"
    /\ UNCHANGED <<disk, heap, cli, pending, doneOrder, ledger, res, log, exitCode, mergeCalls>>
    /\ UNCHANGED notLoadVars

(***************************************************************************)
(* loadConfig, --merge (lines 2103-2127).                                  *)
(***************************************************************************)
RECURSIVE MergedConfigPaths(_, _)
MergedConfigPaths(items, led) ==
    IF items = <<>> THEN <<>>
    ELSE (IF Has(led, Head(items)) THEN led[Head(items)] ELSE <<>>)
         \o MergedConfigPaths(Tail(items), led)

\* a check that lets a single configuration through
TooFewToMergeOffByOne(opts) == ~opts.isArray \/ Len(opts.items) < 1

\* line 2109
TooFewToMerge(opts) == ~opts.isArray \/ Len(opts.items) <= 1

Merge ==
    /\ pc = "merge"
    /\ IF ~cli.merge
       THEN /\ pc' = "done"
            /\ UNCHANGED <<heap, options, ledger, log, exitCode, mergeCalls>>
       ELSE IF TooFewToMerge(options)
       THEN /\ Exit(Msg("At least two configurations are required for merge.", <<>>))
            /\ UNCHANGED <<heap, options, ledger, mergeCalls>>
       ELSE /\ heap' = Put(heap, MergedObj,
                           MergeAll([k \in 1..Len(options.items) |-> heap[options.items[k]]],
                                    EmptyRec))
            /\ mergeCalls' = mergeCalls + Len(options.items)
            /\ options' = [isArray |-> FALSE, items |-> <<MergedObj>>, key |-> MergedObj]
            /\ ledger' = Put(ledger, MergedObj, MergedConfigPaths(options.items, ledger))
            /\ pc' = "done"
            /\ UNCHANGED <<log, exitCode>>
    /\ UNCHANGED <<disk, cli, pending, doneOrder, res>>
    /\ UNCHANGED notLoadVars

(***************************************************************************)
(* buildConfig, the default cache options (lines 2249-2275), for every     *)
(* configuration of config.options (lines 2334-2340).  fileSystemCache     *)
(* tells whether the configurations ask for a cache of type "filesystem".  *)
(***************************************************************************)
\* a variant that lists nothing
NoConfigPath(item, led) == <<>>

\* config.path.get(item), pushed onto the empty defaultConfig
ConfigPath(item, led) == IF Has(led, item) THEN led[item] ELSE <<>>

SetupCache ==
    /\ pc = "done"
    /\ pc' = "built"
    /\ \E fileSystemCache \in BOOLEAN :
         defaultConfig' = IF fileSystemCache
                          THEN [o \in Range(options.items) |-> ConfigPath(o, ledger)]
                          ELSE <<>>
    /\ UNCHANGED <<disk, heap, cli, pending, doneOrder, options, ledger, res, log,
                   exitCode, mergeCalls>>
    /\ UNCHANGED notCacheVars

LoadNext ==
    \/ SetupCache
    \/ StartExplicit
    \/ \E i \in pending : LoadComplete(i)
    \/ Assemble
    \/ DefaultSearch
    \/ SelectByName
    \/ StartExtends
    \/ \E i \in DOMAIN res : ResolveLevel(i)
    \/ FinishExtends
    \/ Merge

SpecLoad == LoadInit /\ [][LoadNext]_vars


(***************************************************************************)
(* Properties of loadConfig.                                               *)
(***************************************************************************)
Last(s) == s[Len(s)]

RecursiveMsg == Msg("Recursive configuration detected, exiting.", <<>>)

MergeMsg == Msg("At least two configurations are required for merge.", <<>>)

\* C1: a configuration whose extends chain names a file that already
\* contributed to it ends in the 'Recursive configuration detected' exit: no
\* resolveExtends chain goes on after loading a file a second time.
C1_CycleEndsInFatalExit ==
    \A i \in DOMAIN res : NoDup(res[i].chain)

\* C2: after loadConfig returns, every configuration of config.options that
\* was loaded from a file has a non-empty path ledger entry.
C2_LoadedConfigHasLedgerEntry ==
    (pc = "done" /\ (Len(cli.config) > 0 \/ FoundDefaultConfigFile(disk) # None)) =>
        \A i \in 1..Len(options.items) :
            LET o == options.items[i]
            IN  heap[o].from # <<>> => (Has(ledger, o) /\ ledger[o] # <<>>)

\* C7: with n >= 1 explicit paths, for every order of completion of the
\* loads, config.options is what the single file exported (n = 1) or the
\* flat array of the configurations of path 1, path 2, ... (n > 1).
C7_ExplicitLoadsKeepPathOrder ==
    (pc = "select" /\ Len(cli.config) > 0) =>
        LET paths == cli.config
        IN  IF Len(paths) = 1
            THEN /\ options.isArray = (FileShape(paths[1]) = "array")
                 /\ options.items = FileObjs(paths[1])
                 /\ options.key = (IF options.isArray THEN FileArr(paths[1])
                                   ELSE FileObj(paths[1], 1))
            ELSE /\ options.isArray
                 /\ options.items = Flatten([i \in 1..Len(paths) |-> FileObjs(paths[i])])

\* two loads, of an array and of an object, completed in the reverse order
C7_Witness ==
    /\ pc = "select"
    /\ Len(cli.config) = 2
    /\ doneOrder = <<2, 1>>
    /\ FileShape(cli.config[1]) = "array"
    /\ FileShape(cli.config[2]) = "object"
    /\ Len(options.items) = 3

\* the index of the first element of items named n, or 0
FirstNamed(items, n) ==
    IF \E i \in 1..Len(items) : heap[items[i]].name = n
    THEN CHOOSE i \in 1..Len(items) :
            /\ heap[items[i]].name = n
            /\ \A j \in 1..(i - 1) : heap[items[j]].name # n
    ELSE 0

\* C8: with configName n1..nk, loadConfig either goes on with config.options
\* = [c1..ck], ci the first loaded configuration named ni, or exits with code
\* 2 after one error message naming every requested name without a match.
C8_NamedSelectionIsAllOrFatal ==
    [][(pc = "select" /\ cli.configName.given) =>
        LET names == cli.configName.names
            missing == {i \in 1..Len(names) : FirstNamed(options.items, names[i]) = 0}
        IN  IF missing = {}
            THEN /\ pc' = "extends"
                 /\ exitCode' = {}
                 /\ log' = log
                 /\ options'.isArray
                 /\ Len(options'.items) = Len(names)
                 /\ \A i \in 1..Len(names) :
                       options'.items[i] = options.items[FirstNamed(options.items, names[i])]
            ELSE /\ pc' = "exit"
                 /\ exitCode' = {2}
                 /\ Len(log') = Len(log) + 1
                 /\ Range(Last(log').names) = {names[i] : i \in missing}
                 /\ NoDup(Last(log').names)]_vars

\* two names selected from three loaded configurations, two of them named n1
C8_Witness ==
    /\ pc = "extends"
    /\ cli.config = <<FileC, FileA>>
    /\ cli.configName.names = <<"n2", "n1">>
    /\ options.items = <<FileObj(FileC, 1), FileObj(FileC, 2)>>

\* C9: --merge over a non-array or over fewer than two configurations logs
\* 'At least two configurations are required for merge.' and exits with
\* code 2 without calling the merge function.
C9_MergeNeedsTwo ==
    [][(pc = "merge" /\ cli.merge /\ (~options.isArray \/ Len(options.items) < 2)) =>
        /\ pc' = "exit"
        /\ exitCode' = {2}
        /\ log' = Append(log, MergeMsg)
        /\ mergeCalls' = mergeCalls
        /\ options' = options]_vars

\* --merge refused over an array of one configuration
C9_Witness ==
    /\ pc = "exit"
    /\ cli.merge
    /\ log # <<>> /\ Last(log) = MergeMsg
    /\ options.isArray
    /\ Len(options.items) = 1
    /\ mergeCalls = 0

\* C10: after --merge, config.options is the single merged object and its
\* ledger entry, the concatenation of the operands' entries, contains every
\* file path that contributed to an operand.
C10_MergedLedgerHoldsEveryContributor ==
    (pc = "done" /\ cli.merge) =>
        /\ ~options.isArray
        /\ options.items = <<MergedObj>>
        /\ Has(ledger, MergedObj)
        /\ Range(heap[MergedObj].from) \subseteq Range(ledger[MergedObj])


\* the `extends` the first object of file f carries now
ExtendsOf(f) == heap[FileObj(f, 1)].ext

\* the files reached from fs through the extends the files carry
ExtendsStep(fs) == fs \cup ({ExtendsOf(f) : f \in fs} \ {None})

ExtendsClosure(fs) == ExtendsStep(ExtendsStep(ExtendsStep(fs)))

\* C11: with a non-empty `extends` on the command line, a configuration's
\* own `extends` is removed and the only files loaded on its behalf are the
\* command-line paths and the files those declare, directly or transitively.
C11_CliExtendsReplacesOwn ==
    (pc \in {"resolving", "merge", "done"} /\ Len(cli.extends) > 0) =>
        \A i \in DOMAIN res :
            /\ Range(res[i].loaded) \subseteq ExtendsClosure(Range(cli.extends))
            /\ heap[res[i].cfg].ext = None
            /\ pc = "resolving" => heap[options.items[i]].ext = None

C11_Witness ==
    /\ pc = "merge"
    /\ Len(cli.extends) > 0
    /\ \E i \in DOMAIN res :
          /\ res[i].own # None
          /\ res[i].own \notin ExtendsClosure(Range(cli.extends))
          /\ res[i].loaded # <<>>

\* the `extends` file f declares: what its first object carried before a
\* resolveExtends call for that object deleted it
DeclaredExtends(f) ==
    LET js == {j \in DOMAIN res : res[j].item = FileObj(f, 1) /\ res[j].own # None}
    IN  IF js = {} THEN ExtendsOf(f) ELSE res[CHOOSE j \in js : TRUE].own

DeclaredStep(fs) == fs \cup ({DeclaredExtends(f) : f \in fs} \ {None})

\* the paths of the outermost resolveExtends call for res[i]
FirstPaths(i) == IF Len(cli.extends) > 0 THEN cli.extends ELSE <<res[i].own>>

\* C12: when resolveExtends returns for a configuration, the result has no
\* `extends`, every file referenced directly or transitively through
\* `extends` has been merged in, and a scalar the configuration sets keeps
\* the configuration's value (else the value of the last parent).
C12_ExtendsMergesEveryAncestor ==
    pc = "merge" =>
        \A i \in DOMAIN res :
            (Len(cli.extends) > 0 \/ res[i].own # None) =>
                LET r == res[i]
                    last == Last(FileObjs(Last(FirstPaths(i))))
                IN  /\ heap[r.cfg].ext = None
                    /\ DeclaredStep(DeclaredStep(DeclaredStep(Range(FirstPaths(i)))))
                           \subseteq Range(heap[r.cfg].from)
                    /\ heap[r.cfg].name = (IF heap[r.item].name # None
                                           THEN heap[r.item].name
                                           ELSE heap[last].name)

(***************************************************************************)
(* makeOption (lines 650-869): the option a flag definition compiles to.   *)
(***************************************************************************)
Boolean == "Boolean"
Number == "Number"
String == "String"

\* a member of an enum config's `values`, with its JavaScript type
EnumValue(t, v) == [t |-> t, v |-> v]

Config(type, values, negatedDescription) ==
    [type |-> type, values |-> values, negatedDescription |-> negatedDescription]

\* the enum case (lines 685-711): the kinds the values add, and hasFalseEnum
RECURSIVE EnumScan(_, _)
EnumScan(values, st) ==
    IF values = <<>> THEN st
    ELSE LET v == Head(values)
         IN  EnumScan(Tail(values),
                CASE v.t = "string" -> [st EXCEPT !.types = @ \cup {String}]
                  [] v.t = "number" -> [st EXCEPT !.types = @ \cup {Number}]
                  [] v.t = "boolean" ->
                        IF ~st.hasFalseEnum /\ v.v = "false"
                        THEN [st EXCEPT !.hasFalseEnum = TRUE]
                        ELSE [st EXCEPT !.types = @ \cup {Boolean}]
                  [] OTHER -> st)

\* a loop that forgot the `false` member of an enum
ConfigStepNoFalseEnum(st, config) ==
    CASE config.type = "reset" -> [st EXCEPT !.types = @ \cup {Boolean}]
      [] config.type = "boolean" ->
            [types |-> st.types \cup {Boolean},
             need |-> TRUE,
             desc |-> IF st.need THEN st.desc ELSE config.negatedDescription]
      [] config.type = "number" -> [st EXCEPT !.types = @ \cup {Number}]
      [] config.type \in {"string", "path", "RegExp"} -> [st EXCEPT !.types = @ \cup {String}]
      [] config.type = "enum" ->
            LET e == EnumScan(config.values, [types |-> st.types, hasFalseEnum |-> FALSE])
            IN  [types |-> e.types, need |-> st.need, desc |-> st.desc]
      [] OTHER -> st

\* one turn of the loop over option.configs (lines 664-713)
ConfigStep(st, config) ==
    CASE config.type = "reset" -> [st EXCEPT !.types = @ \cup {Boolean}]
      [] config.type = "boolean" ->
            [types |-> st.types \cup {Boolean},
             need |-> TRUE,
             desc |-> IF st.need THEN st.desc ELSE config.negatedDescription]
      [] config.type = "number" -> [st EXCEPT !.types = @ \cup {Number}]
      [] config.type \in {"string", "path", "RegExp"} -> [st EXCEPT !.types = @ \cup {String}]
      [] config.type = "enum" ->
            LET e == EnumScan(config.values, [types |-> st.types, hasFalseEnum |-> FALSE])
            IN  [types |-> e.types,
                 need |-> IF st.need THEN TRUE ELSE e.hasFalseEnum,
                 desc |-> IF st.need THEN st.desc ELSE config.negatedDescription]
      [] OTHER -> st

RECURSIVE InferFromConfigs(_, _)
InferFromConfigs(configs, st) ==
    IF configs = <<>> THEN st
    ELSE InferFromConfigs(Tail(configs), ConfigStep(st, Head(configs)))

\* a || b on descriptions
OrElse(a, b) == IF a # None THEN a ELSE b

FlagsWithAlias == {"devtool", "output-path", "target", "watch", "extends"}

\* the first character of an option name
FirstLetter(name) ==
    CASE name = "devtool" -> "d"
      [] name = "output-path" -> "o"
      [] name = "target" -> "t"
      [] name = "watch" -> "w"
      [] name = "extends" -> "e"
      [] OTHER -> "s"

OptionAlias(option) ==
    IF option.name \in FlagsWithAlias THEN FirstLetter(option.name) ELSE option.alias

\* mainOption.type, needNegativeOption and the negated description (lines 659-749)
Inferred(option) ==
    IF option.hasConfigs
    THEN InferFromConfigs(option.configs, [types |-> {}, need |-> FALSE, desc |-> None])
    ELSE [types |-> IF option.type = {} THEN {Boolean} ELSE option.type,
          need |-> option.negative,
          desc |-> None]

\* what lines 751-759 append to mainOption.flags
FlagArg(types, multiple) ==
    IF Cardinality(types) > 1 /\ Boolean \in types
    THEN "[value" \o (IF multiple THEN "..." ELSE "") \o "]"
    ELSE IF Cardinality(types) > 0 /\ Boolean \notin types
    THEN "<value" \o (IF multiple THEN "..." ELSE "") \o ">"
    ELSE ""

\* the argParser given to commander (lines 761-860)
ParserOf(types) ==
    IF Cardinality(types) = 1
    THEN IF Number \in types THEN "number"
         ELSE IF String \in types THEN "string"
         ELSE "none"
    ELSE IF Cardinality(types) > 1 THEN "coerce"
    ELSE "none"

CompiledOption(long, short, arg, parser, default, hidden, description) ==
    [long |-> long, short |-> short, arg |-> arg, parser |-> parser,
     default |-> default, hidden |-> hidden, description |-> description]

Undef == [kind |-> "undefined", items |-> <<>>]

\* the options one call of makeOption adds to the command, in order
MakeOptionAdds(option) ==
    LET inf == Inferred(option)
        alias == OptionAlias(option)
        negative == inf.need
        negDescription ==
            OrElse(inf.desc, OrElse(option.negatedDescription,
                                    "Negative '" \o option.name \o "' option."))
        main == CompiledOption("--" \o option.name, alias,
                               FlagArg(inf.types, option.multiple), ParserOf(inf.types),
                               option.defaultValue, FALSE, option.description)
        stub == CompiledOption("--" \o option.name, alias, "", "none", Undef, TRUE,
                               option.description)
        neg == CompiledOption("--no-" \o option.name, None, "", "none", Undef, FALSE,
                              negDescription)
    IN  (IF Cardinality(inf.types) >= 1 THEN <<main>>
         ELSE IF negative THEN <<stub>> ELSE <<>>)
        \o (IF negative THEN <<neg>> ELSE <<>>)


(***************************************************************************)
(* The argParser closures (lines 769-776, 789-796, 827-846) and the values *)
(* they work on.  A command-line value is a string; a parsed value is      *)
(* undefined, one atom, or a list of atoms.                                *)
(***************************************************************************)
Num(v) == [t |-> "number", v |-> v]
Str(v) == [t |-> "string", v |-> v]
NaN == Num("NaN")

Scalar(x) == [kind |-> "scalar", items |-> <<x>>]
List(xs) == [kind |-> "list", items |-> xs]

\* the values given on the command line
RawValues == {"1", "ab"}

\* Number(value)
ToNumber(raw) == IF raw = "1" THEN Num("1") ELSE NaN

\* the characters of a string, as the spread of a string yields them
Chars(raw) == IF raw = "ab" THEN <<Str("a"), Str("b")>> ELSE <<Str(raw)>>

\* [...prev]
Spread(prev) ==
    IF prev.kind = "list" THEN prev.items
    ELSE IF prev.kind = "scalar" THEN Chars(prev.items[1].v)
    ELSE <<>>

\* mainOption.defaultValue is truthy
Truthy(default) == default.kind # "undefined"

\* one call of the argParser: the new value and the new skipDefault
ArgParser(main, types, multiple, raw, prev0, skip) ==
    LET reset == Truthy(main.default) /\ multiple /\ skip
        prev == IF reset \/ prev0.kind = "undefined" THEN List(<<>>) ELSE prev0
        add(x) == IF multiple THEN List(Spread(prev) \o <<x>>) ELSE Scalar(x)
    IN  [value |->
            CASE main.parser = "number" -> add(ToNumber(raw))
              [] main.parser = "string" -> add(Str(raw))
              [] OTHER ->
                    IF Number \in types /\ ToNumber(raw) # NaN THEN add(ToNumber(raw))
                    ELSE IF String \in types THEN add(Str(raw))
                    ELSE Scalar(Str(raw)),
         skip |-> IF reset THEN FALSE ELSE skip]

(***************************************************************************)
(* The flag definitions makeOption is checked on.                          *)
(***************************************************************************)
ConfigChoices ==
    {Config("reset", <<>>, None),
     Config("boolean", <<>>, "negated boolean"),
     Config("number", <<>>, None),
     Config("string", <<>>, None),
     Config("path", <<>>, None),
     Config("enum", <<EnumValue("boolean", "false")>>, "negated enum"),
     Config("enum", <<EnumValue("boolean", "true")>>, None),
     Config("enum", <<EnumValue("string", "s")>>, None),
     Config("enum", <<EnumValue("boolean", "false"), EnumValue("number", "1")>>, "negated enum"),
     Config("enum", <<EnumValue("boolean", "true"), EnumValue("boolean", "false")>>, None)}

ConfigLists2 == {<<c>> : c \in ConfigChoices} \cup {<<c, d>> : c, d \in ConfigChoices}

DefaultValues == {Undef, List(<<Str("d")>>)}

FlagDefinitions ==
    {[name |-> n, alias |-> None, description |-> "", negatedDescription |-> None,
      hasConfigs |-> TRUE, configs |-> cs, type |-> {}, negative |-> FALSE,
      multiple |-> m, defaultValue |-> d] :
        n \in {"devtool", "stats"}, cs \in ConfigLists2, m \in BOOLEAN, d \in DefaultValues}
    \cup
    {[name |-> "stats", alias |-> None, description |-> "", negatedDescription |-> None,
      hasConfigs |-> FALSE, configs |-> <<>>, type |-> t, negative |-> ng,
      multiple |-> m, defaultValue |-> d] :
        t \in SUBSET {Boolean, Number, String}, ng \in BOOLEAN, m \in BOOLEAN,
        d \in DefaultValues}

\* a bound on the occurrences of the option on one command line
MaxOccurrences == 3

OptInit ==
    /\ optPc = "start"
    /\ optDef \in FlagDefinitions
    /\ cmdOpts = <<>>
    /\ optValue = Undef
    /\ skipDefault = TRUE
    /\ supplied = <<>>
    /\ LoadIdle
    /\ CmdIdle
    /\ UwIdle
    /\ MoreIdle

\* makeOption(command, option); commander then holds the option's default
MakeOption ==
    /\ optPc = "start"
    /\ cmdOpts' = cmdOpts \o MakeOptionAdds(optDef)
    /\ optValue' = IF Cardinality(Inferred(optDef).types) >= 1 THEN optDef.defaultValue
                   ELSE Undef
    /\ optPc' = "compiled"
    /\ UNCHANGED <<optDef, skipDefault, supplied>>
    /\ UNCHANGED notOptVars

\* commander meets `--name raw` and calls the main option's argParser with
\* the value it holds
Occurrence(raw) ==
    /\ optPc = "compiled"
    /\ Len(supplied) < MaxOccurrences
    /\ cmdOpts # <<>>
    /\ cmdOpts[1].arg # ""
    /\ LET r == ArgParser(cmdOpts[1], Inferred(optDef).types, optDef.multiple, raw,
                          optValue, skipDefault)
       IN  /\ optValue' = r.value
           /\ skipDefault' = r.skip
    /\ supplied' = Append(supplied, raw)
    /\ UNCHANGED <<optPc, optDef, cmdOpts>>
    /\ UNCHANGED notOptVars

OptNext ==
    \/ MakeOption
    \/ \E raw \in RawValues : Occurrence(raw)

SpecOpt == OptInit /\ [][OptNext]_vars


(***************************************************************************)
(* Properties of makeOption.                                               *)
(***************************************************************************)
MixedWithBoolean(types) == Boolean \in types /\ types \cap {Number, String} # {}

OptionalArg == {"[value]", "[value...]"}

HasNegated(opts, name) == \E i \in 1..Len(opts) : opts[i].long = "--no-" \o name

\* a config that asks for the negated option: type 'boolean', or an enum
\* with a `false` member
AsksNegated(config) ==
    \/ config.type = "boolean"
    \/ /\ config.type = "enum"
       /\ \E i \in 1..Len(config.values) : config.values[i] = EnumValue("boolean", "false")

\* C4 as claimed: a flag whose inferred kinds hold Boolean and Number or
\* String, whatever config contributed Boolean, compiles to an optional value
\* `[value]` and a `--no-<name>` option is added as well.
C4_MixedBooleanHasNegated ==
    (optPc = "compiled" /\ optDef.hasConfigs /\ MixedWithBoolean(Inferred(optDef).types)) =>
        /\ cmdOpts[1].arg \in OptionalArg
        /\ HasNegated(cmdOpts, optDef.name)

\* C4 as amended: such a flag compiles to an optional value `[value]`, and a
\* `--no-<name>` option is added exactly when one of its configs is of type
\* 'boolean' or is an enum with a `false` member.
C4_MixedBooleanIsOptional ==
    (optPc = "compiled" /\ optDef.hasConfigs /\ MixedWithBoolean(Inferred(optDef).types)) =>
        /\ cmdOpts[1].arg \in OptionalArg
        /\ cmdOpts[1].long = "--" \o optDef.name
        /\ (HasNegated(cmdOpts, optDef.name) <=>
                \E i \in 1..Len(optDef.configs) : AsksNegated(optDef.configs[i]))

\* boolean-or-string: the optional value and the negated option
C4_Witness ==
    /\ optPc = "compiled"
    /\ optDef.hasConfigs
    /\ Inferred(optDef).types = {Boolean, String}
    /\ Len(cmdOpts) = 2
    /\ cmdOpts[1].arg = "[value]"
    /\ cmdOpts[2].long = "--no-stats"

\* the value one occurrence stands for: a number where the kinds allow one
\* and the text is numeric, the text otherwise
Supplied(types, raw) ==
    IF Number \in types /\ (ToNumber(raw) # NaN \/ types = {Number}) THEN ToNumber(raw)
    ELSE Str(raw)

\* C5: for a multiple option with a non-empty default, after k >= 1
\* occurrences the parsed value is exactly the k supplied values in order.
C5_OccurrencesReplaceDefault ==
    (optPc = "compiled" /\ optDef.multiple /\ Truthy(optDef.defaultValue)
        /\ Len(supplied) >= 1) =>
        optValue = List([i \in 1..Len(supplied) |->
                            Supplied(Inferred(optDef).types, supplied[i])])


(***************************************************************************)
(* makeCommand (lines 545-648) and the registry it fills.                  *)
(***************************************************************************)
Webpack == "webpack"
DevServer == "webpack-dev-server"
Packages == {Webpack, DevServer}

\* commandOptions.alias: absent, one string, or an array of strings
NoAlias == [kind |-> "undefined", vals |-> <<>>]
OneAlias(a) == [kind |-> "string", vals |-> <<a>>]
Aliases(as) == [kind |-> "array", vals |-> as]

\* the options argument: a list, or a function that yields the list
OptionsList(defs) == [kind |-> "list", defs |-> defs]
OptionsProvider(defs) == [kind |-> "function", defs |-> defs]

StatsFlag ==
    [name |-> "stats", alias |-> None, description |-> "", negatedDescription |-> None,
     hasConfigs |-> TRUE,
     configs |-> <<Config("string", <<>>, None), Config("boolean", <<>>, "negated boolean")>>,
     type |-> {}, negative |-> FALSE, multiple |-> FALSE, defaultValue |-> Undef]

CommandOptions(name, alias, description, dependencies, opts, action) ==
    [name |-> name, alias |-> alias, description |-> description,
     dependencies |-> dependencies, options |-> opts, action |-> action]

\* the calls of makeCommand the model makes: the built-in commands and the
\* external ones (run, lines 1100-1142; serve; configtest), and three
\* commands that share a name or an alias with them
MakeCommandCalls ==
    {CommandOptions(<<"build", "[entries...]">>, Aliases(<<"bundle", "b">>), "Run webpack",
                    <<Webpack>>, OptionsProvider(<<StatsFlag>>), "runBuild"),
     CommandOptions(<<"watch", "[entries...]">>, OneAlias("w"), "Run webpack and watch",
                    <<Webpack>>, OptionsProvider(<<StatsFlag>>), "runWatch"),
     CommandOptions(<<"serve", "[entries...]">>, Aliases(<<"server", "s">>), "Run the dev server",
                    <<Webpack, DevServer>>, OptionsProvider(<<StatsFlag>>), "runServe"),
     CommandOptions(<<"configtest", "[config-path]">>, OneAlias("t"), "Validate a configuration",
                    <<Webpack>>, OptionsList(<<>>), "runConfigtest"),
     CommandOptions(<<"pack">>, Aliases(<<"p", "b">>), "Pack", <<>>,
                    OptionsProvider(<<StatsFlag>>), "runPack"),
     CommandOptions(<<"w">>, NoAlias, "Short", <<>>, OptionsList(<<StatsFlag>>), "runShort"),
     CommandOptions(<<"wait">>, OneAlias("w"), "Wait", <<>>, OptionsList(<<StatsFlag>>),
                    "runWait")}

\* a bound on the number of makeCommand calls
MaxCalls == 3

\* commandOptions.name.split(" ")[0]
PrimaryName(c) == Head(c.name)

NamesOf(command) == {command.name} \cup Range(command.aliases)

\* command.aliases().includes(commandOptions.alias as string): an array is
\* no member of a list of strings
IncludesAlias(aliases, alias) ==
    alias.kind = "string" /\ alias.vals[1] \in Range(aliases)

\* lines 550-554
AlreadyLoaded(cmds, c) ==
    \E k \in 1..Len(cmds) :
        \/ cmds[k].name = PrimaryName(c)
        \/ IncludesAlias(cmds[k].aliases, c.alias)

\* commander's alias(): the aliases taken one after the other; a strict
\* commander throws at the first one another command already has
RECURSIVE AddAliases(_, _, _, _)
AddAliases(cmds, strict, as, cmd) ==
    IF as = <<>> THEN [threw |-> FALSE, cmd |-> cmd]
    ELSE IF Head(as) = cmd.name
            \/ (strict /\ \E k \in 1..Len(cmds) : Head(as) \in NamesOf(cmds[k]))
    THEN [threw |-> TRUE, cmd |-> cmd]
    ELSE AddAliases(cmds, strict, Tail(as), [cmd EXCEPT !.aliases = Append(@, Head(as))])

RECURSIVE AddOptions(_, _)
AddOptions(defs, opts) ==
    IF defs = <<>> THEN opts ELSE AddOptions(Tail(defs), opts \o MakeOptionAdds(Head(defs)))

Missing(c, pkgs) == {d \in Range(c.dependencies) : d \notin pkgs}

CallResult(c, result) == [call |-> c, result |-> result]

\* a variant that never withholds the options
NeverWithheld(help, missing) == FALSE

\* line 626: forHelp && !allDependenciesInstalled
Withheld(help, missing) == help /\ missing # {}

CmdInit ==
    /\ commands = <<>>
    /\ forHelp \in BOOLEAN
    /\ installed \in SUBSET Packages
    /\ strictCommander \in BOOLEAN
    /\ cmdCalls = 0
    /\ lastCall = <<>>
    /\ providerCalls = 0
    /\ cmdExit = {}
    /\ LoadIdle
    /\ OptIdle
    /\ UwIdle
    /\ MoreIdle

\* makeCommand(c, c.options, c.action); installOk: what doInstall ends in
\* for a missing dependency (the package installed, or process.exit(2))
MakeCommand(c, installOk) ==
    /\ cmdExit = {}
    /\ cmdCalls < MaxCalls
    /\ cmdCalls' = cmdCalls + 1
    /\ IF AlreadyLoaded(commands, c)
       THEN /\ lastCall' = CallResult(c, "noop")
            /\ UNCHANGED <<commands, installed, providerCalls, cmdExit>>
       ELSE IF strictCommander /\ \E k \in 1..Len(commands) : PrimaryName(c) \in NamesOf(commands[k])
       THEN \* program.command() throws
            /\ lastCall' = CallResult(c, "threw")
            /\ UNCHANGED <<commands, installed, providerCalls, cmdExit>>
       ELSE LET new == [name |-> PrimaryName(c), aliases |-> <<>>,
                        description |-> [text |-> c.description, install |-> <<>>],
                        options |-> <<>>, action |-> None]
                al == AddAliases(commands, strictCommander, c.alias.vals, new)
                missing == Missing(c, installed)
                gated == Withheld(forHelp, missing)
                withOptions ==
                    IF c.options.kind = "function" /\ gated
                    THEN [al.cmd EXCEPT !.description.install = c.dependencies]
                    ELSE [al.cmd EXCEPT !.options = AddOptions(c.options.defs, <<>>)]
            IN  IF al.threw
                THEN /\ commands' = Append(commands, al.cmd)
                     /\ lastCall' = CallResult(c, "threw")
                     /\ UNCHANGED <<installed, providerCalls, cmdExit>>
                ELSE IF missing # {} /\ ~forHelp /\ ~installOk
                THEN /\ commands' = Append(commands, al.cmd)
                     /\ lastCall' = CallResult(c, "exit")
                     /\ cmdExit' = {2}
                     /\ UNCHANGED <<installed, providerCalls>>
                ELSE /\ commands' = Append(commands, [withOptions EXCEPT !.action = c.action])
                     /\ installed' = IF forHelp THEN installed ELSE installed \cup missing
                     /\ providerCalls' = IF c.options.kind = "function" /\ ~gated
                                         THEN providerCalls + 1 ELSE providerCalls
                     /\ lastCall' = CallResult(c, "registered")
                     /\ UNCHANGED cmdExit
    /\ UNCHANGED forHelp
    /\ UNCHANGED strictCommander
    /\ UNCHANGED notCmdVars

CmdNext == \E c \in MakeCommandCalls, installOk \in BOOLEAN : MakeCommand(c, installOk)

SpecCmd == CmdInit /\ [][CmdNext]_vars

\* the call has the primary name of a registered command, or one of its
\* aliases is an alias of a registered command
Clashes(cmds, c) ==
    \E k \in 1..Len(cmds) :
        \/ cmds[k].name = PrimaryName(c)
        \/ Range(cmds[k].aliases) \cap Range(c.alias.vals) # {}

\* a makeCommand call that registered a command
Registers == cmdCalls' = cmdCalls + 1 /\ lastCall'.result = "registered"

\* the call was made for help with a dependency missing
ForHelpWithMissing == forHelp /\ Missing(lastCall'.call, installed) # {}

\* nobody was asked to install: no package appeared, no exit
NoPrompt == installed' = installed /\ cmdExit' = {}

\* C16 as claimed: for help with a dependency missing, makeCommand does not
\* prompt, does not invoke the options provider, adds no options and appends
\* the install note to the description; with every dependency present a
\* deferred provider is invoked exactly once.
C16_HelpWithholdsOptions ==
    [][Registers =>
        LET c == lastCall'.call
            new == Last(commands')
        IN  /\ ForHelpWithMissing =>
                  /\ NoPrompt
                  /\ providerCalls' = providerCalls
                  /\ new.options = <<>>
                  /\ new.description = [text |-> c.description, install |-> c.dependencies]
            /\ (Missing(c, installed) = {} /\ c.options.kind = "function") =>
                  providerCalls' = providerCalls + 1]_vars

\* C16, amended: the options are withheld and the note appended only when
\* the options argument is a deferred provider; a list of options is added
\* as it is and the description is left alone.
C16_HelpWithholdsDeferredOptions ==
    [][Registers =>
        LET c == lastCall'.call
            new == Last(commands')
        IN  /\ ForHelpWithMissing =>
                  /\ NoPrompt
                  /\ providerCalls' = providerCalls
                  /\ IF c.options.kind = "function"
                     THEN /\ new.options = <<>>
                          /\ new.description =
                                [text |-> c.description, install |-> c.dependencies]
                     ELSE /\ new.options = AddOptions(c.options.defs, <<>>)
                          /\ new.description = [text |-> c.description, install |-> <<>>]
            /\ (Missing(c, installed) = {} /\ c.options.kind = "function") =>
                  providerCalls' = providerCalls + 1]_vars

C16_Witness ==
    /\ forHelp
    /\ DevServer \notin installed
    /\ cmdCalls > 0
    /\ lastCall.result = "registered"
    /\ lastCall.call.action = "runServe"
    /\ Last(commands).description.install = <<Webpack, DevServer>>
    /\ Last(commands).options = <<>>
    /\ providerCalls = 0

\* C3: a makeCommand call whose primary name or alias (a string, or a member
\* of an alias array) is the name or an alias of a registered command
\* registers nothing, adds no options, does not invoke the options provider
\* and returns without error.
C3_MakeCommandIsIdempotent ==
    [][(cmdCalls' = cmdCalls + 1 /\ Clashes(commands, lastCall'.call)) =>
        /\ commands' = commands
        /\ providerCalls' = providerCalls
        /\ lastCall'.result = "noop"]_vars


(***************************************************************************)
(* loadConfigByPath, lines 1865-1914: the unwrapping of what a module      *)
(* exports.  A value is a plain object, an array, a thenable that resolves *)
(* to a value, or a function that returns a value.                         *)
(***************************************************************************)
Value(t, r) == [t |-> t, r |-> r]
PlainObject == Value("object", <<>>)
Thenable(v) == Value("promise", <<v>>)
Function(v) == Value("function", <<v>>)
Array(vs) == Value("array", vs)
\* a number or a string that is not falsy; 0, false or ""; null or undefined
TruthyScalar == Value("scalar", <<>>)
FalsyScalar == Value("falsy", <<>>)
Null == Value("null", <<>>)

\* a bound on the nesting of the exports explored
MaxNesting == 3

RECURSIVE Exports(_)
Exports(d) ==
    IF d = 0 THEN {PlainObject, TruthyScalar, FalsyScalar, Null}
    ELSE LET S == Exports(d - 1)
         IN  S \cup {Thenable(v) : v \in S} \cup {Function(v) : v \in S}
               \cup {Array(<<v>>) : v \in S} \cup {Array(<<v, PlainObject>>) : v \in S}

\* `!value`
IsFalsy(v) == v.t \in {"falsy", "null"}

\* this.isPromise reads `value.then`: a TypeError for null and undefined
IsPromiseThrows(v) == v.t = "null"

\* this.isPromise, this.isFunction, Array.isArray, isObject
IsPromise(v) == v.t = "promise"
IsFunction(v) == v.t = "function"
IsArray(v) == v.t = "array"
IsObject(v) == v.t \in {"object", "array", "promise"}

\* `await v`: a thenable is followed until it yields what is no thenable
RECURSIVE Await(_)
Await(v) == IF IsPromise(v) THEN Await(v.r[1]) ELSE v

\* f(argv.env, argv)
Invoke(f) == f.r[1]

Invocation(f) == [fn |-> f, args |-> <<"argv.env", "argv">>]

UnableToFindDefaultExport == "Failed to load '<path>' config. Unable to find default export."

InvalidConfiguration == "Invalid configuration in '<path>'"

UwInit ==
    /\ uwPc = "module"
    /\ uwExport \in Exports(MaxNesting)
    /\ uwOptions = uwExport
    /\ uwStage = <<>>
    /\ uwInvoked = <<>>
    /\ uwExit = {}
    /\ uwLog = <<>>
    /\ LoadIdle
    /\ OptIdle
    /\ CmdIdle
    /\ MoreIdle

\* what tryRequireThenImport returns for the module: the dynamic import
\* returns the default export as it is (lines 384-387), require ends in
\* `result || {}` (line 443)
Imported(v, viaImport) == IF ~viaImport /\ IsFalsy(v) THEN PlainObject ELSE v

\* the module is loaded; line 1860 refuses a falsy value
ModuleLoaded ==
    /\ uwPc = "module"
    /\ \E viaImport \in BOOLEAN :
          LET v == Imported(uwExport, viaImport)
          IN  IF IsFalsy(v)
              THEN /\ uwLog' = Append(uwLog, UnableToFindDefaultExport)
                   /\ uwExit' = {2}
                   /\ uwPc' = "exit"
                   /\ UNCHANGED uwOptions
              ELSE /\ uwOptions' = v
                   /\ uwPc' = "start"
                   /\ UNCHANGED <<uwLog, uwExit>>
    /\ UNCHANGED <<uwExport, uwStage, uwInvoked>>
    /\ UNCHANGED notUwVars

\* the synchronous start of one unwrapping (lines 1870-1881, 1886-1898):
\* a thenable is awaited; a function is invoked and its result awaited
Begin(v) ==
    IF IsPromiseThrows(v) THEN [value |-> v, stage |-> "throw", invoked |-> <<>>]
    ELSE IF IsPromise(v) THEN [value |-> v, stage |-> "promise", invoked |-> <<>>]
    ELSE IF IsFunction(v)
    THEN [value |-> Invoke(v), stage |-> "result", invoked |-> <<Invocation(v)>>]
    ELSE [value |-> v, stage |-> "done", invoked |-> <<>>]

\* line 1865: the array branch starts one unwrapping per element, the other
\* branch one for the value
UnwrapStart ==
    /\ uwPc = "start"
    /\ IF IsArray(uwOptions)
       THEN LET b == [i \in 1..Len(uwOptions.r) |-> Begin(uwOptions.r[i])]
            IN  /\ uwOptions' = Array([i \in 1..Len(b) |-> b[i].value])
                /\ uwStage' = [i \in 1..Len(b) |-> b[i].stage]
                /\ uwInvoked' = Flatten([i \in 1..Len(b) |-> b[i].invoked])
                /\ uwPc' = IF \E i \in 1..Len(b) : b[i].stage = "throw"
                           THEN "thrown" ELSE "array"
       ELSE LET b == Begin(uwOptions)
            IN  /\ uwOptions' = b.value
                /\ uwStage' = <<b.stage>>
                /\ uwInvoked' = b.invoked
                /\ uwPc' = "single"
    /\ UNCHANGED <<uwExport, uwExit, uwLog>>
    /\ UNCHANGED notUwVars

\* an awaited thenable has resolved: a function it yields is invoked
AfterPromise(v) ==
    LET w == Await(v)
    IN  IF IsFunction(w)
        THEN [value |-> Invoke(w), stage |-> "result", invoked |-> <<Invocation(w)>>]
        ELSE [value |-> w, stage |-> "done", invoked |-> <<>>]

\* the awaited result of a function has resolved
AfterResult(v) == [value |-> Await(v), stage |-> "done", invoked |-> <<>>]

Continue(v, stage) == IF stage = "promise" THEN AfterPromise(v) ELSE AfterResult(v)

ElementResumes(i) ==
    /\ uwPc = "array"
    /\ i \in 1..Len(uwStage)
    /\ uwStage[i] # "done"
    /\ LET c == Continue(uwOptions.r[i], uwStage[i])
       IN  /\ uwOptions' = [uwOptions EXCEPT !.r[i] = c.value]
           /\ uwStage' = [uwStage EXCEPT ![i] = c.stage]
           /\ uwInvoked' = uwInvoked \o c.invoked
    /\ UNCHANGED <<uwPc, uwExport, uwExit, uwLog>>
    /\ UNCHANGED notUwVars

SingleResumes ==
    /\ uwPc = "single"
    /\ uwStage[1] # "done"
    /\ LET c == Continue(uwOptions, uwStage[1])
       IN  /\ uwOptions' = c.value
           /\ uwStage' = <<c.stage>>
           /\ uwInvoked' = uwInvoked \o c.invoked
    /\ UNCHANGED <<uwPc, uwExport, uwExit, uwLog>>
    /\ UNCHANGED notUwVars

\* lines 1901-1913: the check of the unwrapped value, and the return
UnwrapEnd ==
    /\ uwPc \in {"array", "single"}
    /\ \A i \in 1..Len(uwStage) : uwStage[i] = "done"
    /\ IF ~IsObject(uwOptions) /\ ~IsArray(uwOptions)
       THEN /\ uwLog' = Append(uwLog, InvalidConfiguration)
            /\ uwExit' = {2}
            /\ uwPc' = "exit"
       ELSE /\ uwPc' = "returned"
            /\ UNCHANGED <<uwExit, uwLog>>
    /\ UNCHANGED <<uwExport, uwOptions, uwStage, uwInvoked>>
    /\ UNCHANGED notUwVars

UwNext ==
    \/ ModuleLoaded
    \/ UnwrapStart
    \/ \E i \in 1..2 : ElementResumes(i)
    \/ SingleResumes
    \/ UnwrapEnd

SpecUnwrap == UwInit /\ [][UwNext]_vars

Unwrapped(v) == ~IsPromise(v) /\ ~IsFunction(v)

\* the functions met on the way: those invoked, and those left in the result
FunctionsLeft(v) ==
    IF IsArray(v) THEN {v.r[i] : i \in {j \in 1..Len(v.r) : IsFunction(v.r[j])}}
    ELSE IF IsFunction(v) THEN {v} ELSE {}

\* C6: what loadConfigByPath returns is fully unwrapped, whatever the module
\* exports: neither the result nor an element of a result array is a
\* thenable or a function, and every function met was invoked with
\* (argv.env, argv).
C6_ReturnedConfigIsUnwrapped ==
    uwPc = "returned" =>
        /\ Unwrapped(uwOptions)
        /\ IsArray(uwOptions) => \A i \in 1..Len(uwOptions.r) : Unwrapped(uwOptions.r[i])
        /\ FunctionsLeft(uwOptions) = {}
        /\ \A i \in 1..Len(uwInvoked) : uwInvoked[i].args = <<"argv.env", "argv">>

\* C14: whatever the module exports or a factory returns, loadConfigByPath
\* either returns an object or an array of objects, or exits with code 2
\* logging "Invalid configuration in '<path>'"; a falsy export, a scalar and
\* an array with an element that is no object are refused that way (the
\* message of line 1861 for a missing default export is taken as such a
\* refusal too).
C14_ReturnsConfigOrInvalidExit ==
    uwPc \in {"returned", "exit", "thrown"} =>
        \/ /\ uwPc = "returned"
           /\ ~IsFalsy(uwExport)
           /\ IsObject(uwOptions)
           /\ IsArray(uwOptions) => \A i \in 1..Len(uwOptions.r) : IsObject(uwOptions.r[i])
        \/ /\ uwPc = "exit"
           /\ uwExit = {2}
           /\ uwLog \in {<<InvalidConfiguration>>, <<UnableToFindDefaultExport>>}


(***************************************************************************)
(* tryRequireThenImport (lines 360-444) as loadConfigByPath calls it       *)
(* (lines 1829-1858): handleError is false, so a failure is thrown to      *)
(* loadConfigByPath, which logs it and exits.                              *)
(***************************************************************************)
ModuleTypes == {"unknown", "commonjs", "esm"}

\* what require(module) does: it returns, or throws an error with this code
RequireOutcomes == {"ok", "ERR_REQUIRE_ESM", "ERR_REQUIRE_ASYNC_MODULE", "ERR_OTHER"}

\* a variant that retries for ERR_REQUIRE_ESM only
AsyncRequiredEsmOnly(code) == code = "ERR_REQUIRE_ESM"

\* lines 376-377
AsyncRequired(code) == code \in {"ERR_REQUIRE_ESM", "ERR_REQUIRE_ASYNC_MODULE"}

\* lines 375-381: the condition under which the catch block imports
RetriesWithImport(env) ==
    /\ AsyncRequired(env.require) \/ env.forceEsm
    /\ env.loader

FailedToLoad == "Failed to load '<path>' config"

ImInit ==
    /\ imPc = "start"
    /\ imEnv \in [moduleType : ModuleTypes,
                  require : RequireOutcomes,
                  forceEsm : BOOLEAN,   \* WEBPACK_CLI_FORCE_LOAD_ESM_CONFIG
                  loader : BOOLEAN,     \* dynamicImportLoader is not null
                  importOk : BOOLEAN]   \* the dynamic import resolves
    /\ imTried = <<>>
    /\ imLog = <<>>
    /\ imExit = {}
    /\ OldIdle
    /\ ExIdle
    /\ BcIdle
    /\ EnvIdle
    /\ CacheIdle
    /\ LateIdle

\* cases "unknown" and "commonjs": result = require(module)
TryRequire ==
    /\ imPc = "start"
    /\ imEnv.moduleType \in {"unknown", "commonjs"}
    /\ imTried' = Append(imTried, "require")
    /\ imPc' = IF imEnv.require = "ok" THEN "returned"
               ELSE IF imEnv.moduleType = "unknown" /\ RetriesWithImport(imEnv)
               THEN "importing"
               ELSE "thrown"
    /\ UNCHANGED <<imEnv, imLog, imExit>>
    /\ UNCHANGED notImVars

\* case "esm": the dynamic import, when there is a loader for it
TryImport ==
    /\ imPc = "start"
    /\ imEnv.moduleType = "esm"
    /\ IF imEnv.loader
       THEN /\ imPc' = "importing"
            /\ UNCHANGED imTried
       ELSE /\ imPc' = "returned"
            /\ UNCHANGED imTried
    /\ UNCHANGED <<imEnv, imLog, imExit>>
    /\ UNCHANGED notImVars

\* result = await dynamicImportLoader(urlForConfig)
ImportSettles ==
    /\ imPc = "importing"
    /\ imTried' = Append(imTried, "import")
    /\ imPc' = IF imEnv.importOk THEN "returned" ELSE "thrown"
    /\ UNCHANGED <<imEnv, imLog, imExit>>
    /\ UNCHANGED notImVars

\* loadConfigByPath, lines 1847-1858
LoadFailed ==
    /\ imPc = "thrown"
    /\ imLog' = Append(imLog, FailedToLoad)
    /\ imExit' = {2}
    /\ imPc' = "exit"
    /\ UNCHANGED <<imEnv, imTried>>
    /\ UNCHANGED notImVars

ImNext == TryRequire \/ TryImport \/ ImportSettles \/ LoadFailed

SpecImport == ImInit /\ [][ImNext]_vars

ImEnded == imPc \in {"returned", "exit"} /\ imEnv.moduleType = "unknown"

\* C13 as claimed: for a module of unknown format the synchronous loader is
\* tried first, and the asynchronous loader is tried if and only if the
\* synchronous attempt failed with ERR_REQUIRE_ESM or
\* ERR_REQUIRE_ASYNC_MODULE.
C13_ImportOnlyWhenAsyncRequired ==
    ImEnded =>
        /\ imTried[1] = "require"
        /\ ("import" \in Range(imTried)) <=> AsyncRequired(imEnv.require)

\* C13, amended: the asynchronous loader is tried if and only if the
\* synchronous attempt failed, a dynamic import loader is available, and the
\* failure is ERR_REQUIRE_ESM or ERR_REQUIRE_ASYNC_MODULE or
\* WEBPACK_CLI_FORCE_LOAD_ESM_CONFIG is set; when the import succeeds nothing
\* is reported; every other failure is logged as "Failed to load '<path>'
\* config" with exit code 2, and no loader is tried twice.
C13_ImportWhenRequiredOrForced ==
    ImEnded =>
        /\ imTried[1] = "require"
        /\ NoDup(imTried)
        /\ ("import" \in Range(imTried)) <=>
               (/\ imEnv.require # "ok"
                /\ imEnv.loader
                /\ imEnv.require \in {"ERR_REQUIRE_ESM", "ERR_REQUIRE_ASYNC_MODULE"}
                      \/ imEnv.forceEsm)
        /\ IF imEnv.require = "ok" \/ ("import" \in Range(imTried) /\ imEnv.importOk)
           THEN imPc = "returned" /\ imLog = <<>> /\ imExit = {}
           ELSE imPc = "exit" /\ imLog = <<FailedToLoad>> /\ imExit = {2}

C13_Witness ==
    /\ imPc = "returned"
    /\ imEnv.moduleType = "unknown"
    /\ imEnv.require = "ERR_REQUIRE_ASYNC_MODULE"
    /\ ~imEnv.forceEsm
    /\ imTried = <<"require", "import">>


(***************************************************************************)
(* loadCommandByName for an external command (lines 1226-1279), doInstall  *)
(* (lines 283-358) and, when run's root action made the call with          *)
(* allowToInstall = true (line 1745), the re-parse of lines 1776-1778: a   *)
(* command that was not registered sends the parse to the root action      *)
(* again, which exits (lines 1691-1696).                                   *)
(***************************************************************************)
ExEnvs ==
    [allowToInstall : BOOLEAN,
     pkgExists : BOOLEAN,       \* checkPackageExists(pkg)
     packageManager : BOOLEAN,  \* getDefaultPackageManager() finds one
     answerYes : BOOLEAN,       \* the answer to the install prompt
     loadOk : BOOLEAN,          \* tryRequireThenImport(pkg) does not throw
     applyOk : BOOLEAN]         \* new loadedCommand() and apply do not throw

ExInit ==
    /\ exPc = "start"
    /\ exEnv \in ExEnvs
    /\ exRegistered = FALSE
    /\ exPrompted = FALSE
    /\ exLog = <<>>
    /\ exExit = {}
    /\ OldIdle
    /\ ImIdle
    /\ BcIdle
    /\ EnvIdle
    /\ CacheIdle
    /\ LateIdle

ExExits(msg) ==
    /\ exLog' = Append(exLog, msg)
    /\ exExit' = {2}
    /\ exPc' = "exit"

\* a variant that installs whatever allowToInstall says
MissingPackageInstalls(allowToInstall) == "install"

\* lines 1243-1246
MissingPackage(allowToInstall) == IF allowToInstall THEN "install" ELSE "returned"

CheckPackage ==
    /\ exPc = "start"
    /\ exPc' = IF exEnv.pkgExists THEN "load" ELSE MissingPackage(exEnv.allowToInstall)
    /\ UNCHANGED <<exEnv, exRegistered, exPrompted, exLog, exExit>>
    /\ UNCHANGED notExVars

DoInstall ==
    /\ exPc = "install"
    /\ IF ~exEnv.packageManager
       THEN /\ ExExits("Can't find package manager")
            /\ UNCHANGED exPrompted
       ELSE /\ exPrompted' = TRUE
            /\ IF exEnv.answerYes
               THEN /\ exLog' = Append(exLog, "For using this command you need to install")
                    /\ exPc' = "load"
                    /\ UNCHANGED exExit
               ELSE /\ exLog' = Append(exLog, "For using this command you need to install")
                    /\ exExit' = {2}
                    /\ exPc' = "exit"
    /\ UNCHANGED <<exEnv, exRegistered>>
    /\ UNCHANGED notExVars

\* lines 1258-1266: a package that cannot be loaded is passed over
LoadCommand ==
    /\ exPc = "load"
    /\ exPc' = IF exEnv.loadOk THEN "apply" ELSE "returned"
    /\ UNCHANGED <<exEnv, exRegistered, exPrompted, exLog, exExit>>
    /\ UNCHANGED notExVars

\* lines 1268-1278
ApplyCommand ==
    /\ exPc = "apply"
    /\ IF exEnv.applyOk
       THEN /\ exRegistered' = TRUE
            /\ exPc' = "returned"
            /\ UNCHANGED <<exLog, exExit>>
       ELSE /\ ExExits("Unable to load '<pkg>' command")
            /\ UNCHANGED exRegistered
    /\ UNCHANGED <<exEnv, exPrompted>>
    /\ UNCHANGED notExVars

\* lines 1776-1778 and 1690-1696, after the call of line 1745
Reparse ==
    /\ exPc = "returned"
    /\ exEnv.allowToInstall
    /\ IF exRegistered
       THEN /\ exPc' = "ran"
            /\ UNCHANGED <<exLog, exExit>>
       ELSE ExExits("No commands found to run")
    /\ UNCHANGED <<exEnv, exRegistered, exPrompted>>
    /\ UNCHANGED notExVars

ExNext == CheckPackage \/ DoInstall \/ LoadCommand \/ ApplyCommand \/ Reparse

SpecExternal == ExInit /\ [][ExNext]_vars

ExEnded == exPc \in {"ran", "exit"} \/ (exPc = "returned" /\ ~exEnv.allowToInstall)

\* the package is missing or cannot be loaded
ExUnavailable == ~exEnv.pkgExists \/ ~exEnv.loadOk

\* the package cannot be had, loaded or applied although it may be installed
ExFails ==
    \/ ~exEnv.pkgExists /\ (~exEnv.packageManager \/ ~exEnv.answerYes)
    \/ ~exEnv.loadOk
    \/ ~exEnv.applyOk

\* C15: without permission to install, a missing or unloadable package makes
\* loadCommandByName return silently: no command, no exit, no prompt, no
\* message.  With permission, a package that still cannot be installed,
\* loaded or applied ends the process with a non-zero exit code.
C15_ExternalCommandFailure ==
    /\ (~exEnv.allowToInstall /\ ExUnavailable) =>
          /\ ~exRegistered /\ ~exPrompted /\ exExit = {} /\ exLog = <<>>
          /\ ExEnded => exPc = "returned"
    /\ (exEnv.allowToInstall /\ ExFails) =>
          /\ ExEnded => (exPc = "exit" /\ exExit # {} /\ exExit # {0})
          /\ ~ExEnded => ENABLED ExNext

C15_Witness ==
    /\ exEnv.allowToInstall
    /\ ~exEnv.pkgExists
    /\ exPrompted
    /\ ~exEnv.loadOk
    /\ exPc = "exit"
    /\ Last(exLog) = "No commands found to run"


(***************************************************************************)
(* buildConfig, internalBuildConfig (lines 2162-2226): the parsed options  *)
(* whose kebab-cased name is a core flag are handed to                     *)
(* webpack.cli.processArguments, and the problems it returns are logged.   *)
(* Names are sequences of characters.                                      *)
(***************************************************************************)
LowerCase == <<"a", "b", "c", "d", "e", "f", "g", "h", "i", "j", "k", "l", "m",
               "n", "o", "p", "q", "r", "s", "t", "u", "v", "w", "x", "y", "z">>
UpperCase == <<"A", "B", "C", "D", "E", "F", "G", "H", "I", "J", "K", "L", "M",
               "N", "O", "P", "Q", "R", "S", "T", "U", "V", "W", "X", "Y", "Z">>
Digits == <<"0", "1", "2", "3", "4", "5", "6", "7", "8", "9">>

IndexIn(c, s) == CHOOSE i \in 1..Len(s) : s[i] = c

ToLowerCase(c) == IF c \in Range(UpperCase) THEN LowerCase[IndexIn(c, UpperCase)] ELSE c

ToUpperCase(c) == IF c \in Range(LowerCase) THEN UpperCase[IndexIn(c, LowerCase)] ELSE c

\* toKebabCase: replaceAll(/([a-z0-9])([A-Z])/g, "$1-$2").toLowerCase()
RECURSIVE ToKebabCase(_)
ToKebabCase(str) ==
    IF Len(str) < 2 THEN [i \in 1..Len(str) |-> ToLowerCase(str[i])]
    ELSE IF str[1] \in Range(LowerCase) \cup Range(Digits) /\ str[2] \in Range(UpperCase)
    THEN <<str[1], "-", ToLowerCase(str[2])>> \o ToKebabCase(Tail(Tail(str)))
    ELSE <<ToLowerCase(str[1])>> \o ToKebabCase(Tail(str))

\* the names of the flags of group "core" (webpack.cli.getArguments())
CoreFlags == {<<"d", "e", "v", "t", "o", "o", "l">>,
              <<"o", "u", "t", "p", "u", "t", "-", "p", "a", "t", "h">>}

\* the keys the parsed options are drawn from, in order
OptionKeys == << <<"a", "r", "g", "v">>,
                 <<"o", "u", "t", "p", "u", "t", "P", "a", "t", "h">>,
                 <<"a", "n", "a", "l", "y", "z", "e">>,
                 <<"d", "e", "v", "t", "o", "o", "l">>,
                 <<"n", "o", "d", "e", "E", "n", "v">> >>

OptionEntry(k) == [name |-> OptionKeys[k], value |-> k]

RECURSIVE Entries(_, _)
Entries(ks, k) ==
    IF k > Len(OptionKeys) THEN <<>>
    ELSE (IF k \in ks THEN <<OptionEntry(k)>> ELSE <<>>) \o Entries(ks, k + 1)


\* JavaScript values a Problem carries, and whether `x ? a : b` takes a
JsUndefined == [kind |-> "undefined", v |-> ""]
JsString(s) == [kind |-> "string", v |-> s]
JsNumber(n) == [kind |-> "number", v |-> n]
JsBoolean(b) == [kind |-> "boolean", v |-> b]

JsTruthy(x) ==
    CASE x.kind = "undefined" -> FALSE
      [] x.kind = "string" -> x.v # ""
      [] x.kind = "number" -> x.v # "0"
      [] OTHER -> x.v = "true"

InvalidValue == <<"i", "n", "v", "a", "l", "i", "d", "-", "v", "a", "l", "u", "e">>
MultipleValuesUnexpected ==
    <<"m", "u", "l", "t", "i", "p", "l", "e", "-", "v", "a", "l", "u", "e", "s", "-",
      "u", "n", "e", "x", "p", "e", "c", "t", "e", "d">>

Problem(type, path, argument, value, index, expected) ==
    [type |-> type, path |-> path, argument |-> argument, value |-> value,
     index |-> index, expected |-> expected]

\* the problems processArguments may report for the argument `name`
ProblemsFor(name) ==
    {Problem(InvalidValue, name, name, JsString("x"), JsUndefined, JsString("a | b")),
     Problem(MultipleValuesUnexpected, name, name, JsNumber("0"), JsNumber("0"), JsUndefined),
     Problem(InvalidValue, name, name, JsBoolean("false"), JsNumber("1"), JsUndefined)}

\* a bound on the number of problems one processArguments call returns
MaxProblems == 3

ProblemLists(names) ==
    LET ps == UNION {ProblemsFor(n) : n \in names}
    IN  UNION {[1..n -> ps] : n \in 1..MaxProblems}

NoProblems == [isNull |-> TRUE, list |-> <<>>]
Problems(list) == [isNull |-> FALSE, list |-> list]

\* problem.type.replaceAll("-", " ")
ReplaceAllHyphens(str) == [i \in 1..Len(str) |-> IF str[i] = "-" THEN " " ELSE str[i]]

\* capitalizeFirstLetter
CapitalizeFirstLetter(str) ==
    IF str = <<>> THEN str ELSE <<ToUpperCase(str[1])>> \o Tail(str)

ProblemLine(type, value, argument, index) ==
    [line |-> "problem", type |-> type, value |-> value, argument |-> argument,
     index |-> index, expected |-> None]

ExpectedLine(expected) ==
    [line |-> "expected", type |-> <<>>, value |-> None, argument |-> <<>>,
     index |-> None, expected |-> expected]

\* lines 2209-2220: what is logged for one problem
LinesOf(problem) ==
    <<ProblemLine(CapitalizeFirstLetter(ReplaceAllHyphens(problem.type)),
                  IF JsTruthy(problem.value) THEN problem.value.v ELSE None,
                  problem.argument,
                  IF JsTruthy(problem.index) THEN problem.index.v ELSE None)>>
    \o (IF JsTruthy(problem.expected) THEN <<ExpectedLine(problem.expected.v)>> ELSE <<>>)

\* groupBy(problems, "path") and the for-in over its keys: the paths in the
\* order of their first problem, each with its problems in order
RECURSIVE PathsOf(_, _)
PathsOf(problems, seen) ==
    IF problems = <<>> THEN seen
    ELSE PathsOf(Tail(problems),
                 IF Head(problems).path \in Range(seen) THEN seen
                 ELSE Append(seen, Head(problems).path))

GroupBy(problems) ==
    LET paths == PathsOf(problems, <<>>)
    IN  Flatten([k \in 1..Len(paths) |->
                    SelectSeq(problems, LAMBDA p : p.path = paths[k])])

LoggedFor(problems) ==
    LET grouped == GroupBy(problems)
    IN  Flatten([k \in 1..Len(grouped) |-> LinesOf(grouped[k])])

\* a variant in which every parsed option counts as a core flag
InArgsAny(kebabName) == TRUE

\* args[kebabName]
InArgs(kebabName) == kebabName \in CoreFlags

Argv == <<"a", "r", "g", "v">>

\* lines 2175-2190
ValuesOf(opts) ==
    LET kept == SelectSeq(opts, LAMBDA o : o.name # Argv /\ InArgs(ToKebabCase(o.name)))
    IN  [k \in 1..Len(kept) |-> [name |-> ToKebabCase(kept[k].name), value |-> kept[k].value]]

ItemFields == CoreFlags \cup {ToKebabCase(OptionKeys[k]) : k \in 1..Len(OptionKeys)}

InitialItem == [f \in ItemFields |-> 0]

\* processArguments sets the fields of the values it has no problem with
Processed(item, values, problems) ==
    [f \in DOMAIN item |->
        LET hits == {k \in 1..Len(values) :
                        /\ values[k].name = f
                        /\ \A j \in 1..Len(problems) : problems[j].argument # f}
        IN  IF hits = {} THEN item[f] ELSE values[CHOOSE k \in hits : TRUE].value]

BcInit ==
    /\ bcPc = "start"
    /\ \E ks \in SUBSET (1..Len(OptionKeys)) : bcOptions = Entries(ks, 1)
    /\ bcItem = InitialItem
    /\ bcCalls = <<>>
    /\ bcProblems = NoProblems
    /\ bcLog = <<>>
    /\ bcExit = {}
    /\ OldIdle
    /\ ImIdle
    /\ ExIdle
    /\ EnvIdle
    /\ CacheIdle
    /\ LateIdle

InternalBuildConfig ==
    /\ bcPc = "start"
    /\ LET values == ValuesOf(bcOptions)
       IN  IF Len(values) = 0
           THEN /\ bcPc' = "built"
                /\ UNCHANGED <<bcItem, bcCalls, bcProblems, bcLog, bcExit>>
           ELSE /\ bcCalls' = Append(bcCalls, values)
                /\ \/ /\ bcProblems' = NoProblems
                      /\ bcItem' = Processed(bcItem, values, <<>>)
                      /\ bcPc' = "built"
                      /\ UNCHANGED <<bcLog, bcExit>>
                   \/ \E ps \in ProblemLists({values[k].name : k \in 1..Len(values)}) :
                        /\ bcProblems' = Problems(ps)
                        /\ bcItem' = Processed(bcItem, values, ps)
                        /\ bcLog' = bcLog \o LoggedFor(ps)
                        /\ bcExit' = {2}
                        /\ bcPc' = "exit"
    /\ UNCHANGED bcOptions
    /\ UNCHANGED notBcVars

BcNext == InternalBuildConfig

SpecBuild == BcInit /\ [][BcNext]_vars


\* the kebab-cased names of the parsed options that are flags of the core schema
CoreNamesOf(opts) ==
    {n \in CoreFlags : \E k \in 1..Len(opts) : opts[k].name # Argv /\ ToKebabCase(opts[k].name) = n}

Carries(x) == x.kind # "undefined"

StatedLinesOf(problem) ==
    <<ProblemLine(CapitalizeFirstLetter(ReplaceAllHyphens(problem.type)),
                  IF Carries(problem.value) THEN problem.value.v ELSE None,
                  problem.argument,
                  IF Carries(problem.index) THEN problem.index.v ELSE None)>>
    \o (IF Carries(problem.expected) THEN <<ExpectedLine(problem.expected.v)>> ELSE <<>>)

\* C18: when reconciliation returns problems the process exits with code 2
\* after logging, for every Problem and with the Problems of one schema path
\* together, its type, its value whenever it carries one (falsy values too),
\* its argument, its index whenever it carries one (index 0 too) and its
\* expected text when present.
C18_EveryProblemLogged ==
    bcPc = "exit" =>
        /\ bcExit = {2}
        /\ LET grouped == GroupBy(bcProblems.list)
           IN  bcLog = Flatten([k \in 1..Len(grouped) |-> StatedLinesOf(grouped[k])])


\* ---------------------------------------------------------------------------
\* The type parser of the env option (getBuiltInOptions): it folds every
\* --env value into `previous`.  Strings are sequences of characters; the
\* mapping `previous` is a function from paths (sequences of keys) to what
\* the path holds.
\* ---------------------------------------------------------------------------

EnvObject == [kind |-> "object", v |-> <<>>]
EnvTrue == [kind |-> "boolean", v |-> <<>>]
EnvUndefined == [kind |-> "undefined", v |-> <<>>]
EnvAbsent == [kind |-> "absent", v |-> <<>>]
EnvString(s) == [kind |-> "string", v |-> s]

\* the --env values of a command line
EnvArguments ==
    {<<"a">>, <<"b">>, <<"a", ".", "b">>, <<"b", ".", "a">>, <<"a", ".", "b", ".", "a">>,
     <<"a", "=", "x">>, <<"b", "=", "x">>, <<"a", ".", "b", "=", "x">>,
     <<"b", ".", "a", "=", "y">>, <<"a", "=", "x", "=", "y">>,
     <<"a", "=">>, <<"a", ".">>}

\* a bound on the number of --env values of one command line
MaxEnvArgs == 2

\* value.split(/[=](.+)/, 2): at the first "=" that has a character after it
SplitValue(value) ==
    LET hits == {i \in 1..(Len(value) - 1) : value[i] = "="}
    IN  IF hits = {} THEN [allKeys |-> value, hasVal |-> FALSE, val |-> <<>>]
        ELSE LET i == CHOOSE h \in hits : \A g \in hits : h <= g
             IN  [allKeys |-> SubSeq(value, 1, i - 1), hasVal |-> TRUE,
                  val |-> SubSeq(value, i + 1, Len(value))]

\* allKeys.split(/\.(?!$)/): at every "." that is not the last character
RECURSIVE SplitKeys(_)
SplitKeys(allKeys) ==
    LET hits == {i \in 1..(Len(allKeys) - 1) : allKeys[i] = "."}
    IN  IF hits = {} THEN <<allKeys>>
        ELSE LET i == CHOOSE h \in hits : \A g \in hits : h <= g
             IN  <<SubSeq(allKeys, 1, i - 1)>> \o SplitKeys(SubSeq(allKeys, i + 1, Len(allKeys)))

EndsWithEquals(someKey) == someKey # <<>> /\ someKey[Len(someKey)] = "="

IsPrefixOf(p, q) == Len(p) <= Len(q) /\ SubSeq(q, 1, Len(p)) = p

\* prevRef[someKey]
EnvGet(tree, path) == IF path \in DOMAIN tree THEN tree[path] ELSE EnvAbsent

\* prevRef[someKey] = v: what the path held and everything below it is replaced
EnvSet(tree, path, v) ==
    LET kept == {p \in DOMAIN tree : ~IsPrefixOf(path, p)}
    IN  [p \in kept \cup {path} |-> IF p = path THEN v ELSE tree[p]]

EnvFalsy(x) == x.kind \in {"absent", "undefined"}

\* class bodies are strict code: setting a property on a primitive throws
AssignmentThrows(prim) == prim

\* one round of the for loop; st.ref is prevRef: an object of the mapping,
\* named by its path, or a primitive
EnvStep(st, someKey, isLast, parts) ==
    IF st.thrown THEN st
    ELSE IF AssignmentThrows(st.ref.prim) THEN [st EXCEPT !.thrown = TRUE]
    ELSE IF EndsWithEquals(someKey)
    THEN [st EXCEPT !.tree = EnvSet(st.tree,
                                    Append(st.ref.path, SubSeq(someKey, 1, Len(someKey) - 1)),
                                    EnvUndefined)]
    ELSE LET path == Append(st.ref.path, someKey)
             t1 == IF EnvFalsy(EnvGet(st.tree, path))
                   THEN EnvSet(st.tree, path, EnvObject) ELSE st.tree
             t2 == IF EnvGet(t1, path).kind = "string"
                   THEN EnvSet(t1, path, EnvObject) ELSE t1
             t3 == IF isLast
                   THEN EnvSet(t2, path, IF parts.hasVal THEN EnvString(parts.val) ELSE EnvTrue)
                   ELSE t2
         IN  [tree |-> t3,
              ref |-> [prim |-> EnvGet(t3, path).kind # "object", path |-> path],
              thrown |-> FALSE]

RECURSIVE EnvLoop(_, _, _, _)
EnvLoop(st, splitKeys, index, parts) ==
    IF index > Len(splitKeys) THEN st
    ELSE EnvLoop(EnvStep(st, splitKeys[index], index = Len(splitKeys), parts),
                 splitKeys, index + 1, parts)

\* the type parser: (value, previous) -> previous
EnvType(value, previous) ==
    LET parts == SplitValue(value)
    IN  EnvLoop([tree |-> previous, ref |-> [prim |-> FALSE, path |-> <<>>], thrown |-> FALSE],
                SplitKeys(parts.allKeys), 1, parts)

EnvInit ==
    /\ envArgs = <<>>
    /\ envBefore = <<>>
    /\ envPrevious = <<>>
    /\ envThrown = FALSE
    /\ OldIdle
    /\ ImIdle
    /\ ExIdle
    /\ BcIdle
    /\ CacheIdle
    /\ LateIdle

\* commander hands the next --env value and the mapping so far to the parser
ParseEnv ==
    /\ ~envThrown
    /\ Len(envArgs) < MaxEnvArgs
    /\ \E value \in EnvArguments :
         LET out == EnvType(value, envPrevious)
         IN  /\ envArgs' = Append(envArgs, value)
             /\ envBefore' = envPrevious
             /\ envPrevious' = out.tree
             /\ envThrown' = out.thrown
    /\ UNCHANGED notEnvVars

EnvNext == ParseEnv

SpecEnv == EnvInit /\ [][EnvNext]_vars

\* the keys and the value an --env argument of the form k1.k2...kn[=v] names
StatedParts(value) ==
    LET eqs == {i \in 1..Len(value) : value[i] = "="}
        cut == IF eqs = {} THEN Len(value) + 1 ELSE CHOOSE h \in eqs : \A g \in eqs : h <= g
    IN  [keys |-> SubSeq(value, 1, cut - 1), hasVal |-> eqs # {},
         val |-> SubSeq(value, cut + 1, Len(value))]

RECURSIVE StatedKeys(_)
StatedKeys(keys) ==
    LET dots == {i \in 1..Len(keys) : keys[i] = "."}
    IN  IF dots = {} THEN <<keys>>
        ELSE LET i == CHOOSE h \in dots : \A g \in dots : h <= g
             IN  <<SubSeq(keys, 1, i - 1)>> \o StatedKeys(SubSeq(keys, i + 1, Len(keys)))

StatedForm(value) ==
    LET parts == StatedParts(value)
    IN  /\ \A k \in Range(StatedKeys(parts.keys)) : k # <<>>
        /\ parts.hasVal => parts.val # <<>>

\* C20: for --env arguments of the form k1.k2...kn or k1.k2...kn=v the parser
\* never fails; after each argument the path k1..kn holds the string v (the
\* text after the first "=") or true, whatever scalar an earlier argument
\* stored on a prefix of the path, and what earlier arguments stored at
\* unrelated paths is still there.
C20_EnvParserNestsEveryArgument ==
    (envArgs # <<>> /\ \A k \in 1..Len(envArgs) : StatedForm(envArgs[k])) =>
        LET parts == StatedParts(envArgs[Len(envArgs)])
            path == StatedKeys(parts.keys)
        IN  /\ ~envThrown
            /\ EnvGet(envPrevious, path) =
                   (IF parts.hasVal THEN EnvString(parts.val) ELSE EnvTrue)
            /\ \A k \in 1..(Len(path) - 1) : EnvGet(envPrevious, SubSeq(path, 1, k)) = EnvObject
            /\ \A p \in DOMAIN envBefore :
                   (~IsPrefixOf(p, path) /\ ~IsPrefixOf(path, p)) =>
                       EnvGet(envPrevious, p) = envBefore[p]


\* C19: once buildConfig has set up the default cache options, every
\* configuration with a filesystem cache lists in
\* cache.buildDependencies.defaultConfig every file that contributed to it:
\* its own file, the files merged in through extends, the operands' files
\* after --merge; for a single configuration and for the elements of an array.
C19_CacheListsEveryContributor ==
    pc = "built" =>
        \A o \in DOMAIN defaultConfig :
            Range(heap[o].from) \subseteq Range(defaultConfig[o])


\* the candidates of the default search in the stated order
StatedCandidates ==
    <<"webpack.config.js", "webpack.config.mjs", "webpack.config.cjs",
      "webpack.config.ts", "webpack.config.cts", "webpack.config.mts",
      ".webpack/webpack.config.js", ".webpack/webpack.config.mjs",
      ".webpack/webpack.config.cjs", ".webpack/webpack.config.ts",
      ".webpack/webpack.config.cts", ".webpack/webpack.config.mts",
      ".webpack/webpackfile.js", ".webpack/webpackfile.mjs", ".webpack/webpackfile.cjs",
      ".webpack/webpackfile.ts", ".webpack/webpackfile.cts", ".webpack/webpackfile.mts">>

StatedFirst(d) ==
    LET hits == {i \in 1..Len(StatedCandidates) : StatedCandidates[i] \in d}
    IN  IF hits = {} THEN None
        ELSE StatedCandidates[CHOOSE i \in hits : \A j \in hits : i <= j]

\* after the default search: what the first existing candidate exports, with
\* that file alone in the ledger; nothing at all when no candidate exists
SearchedFirstOnly ==
    (pc = "select" /\ cli.config = <<>>) =>
        LET first == StatedFirst(disk)
        IN  /\ log = <<>> /\ exitCode = {}
            /\ IF first = None
               THEN options.items = <<EmptyObj>> /\ ~options.isArray /\ ledger = <<>>
               ELSE /\ options.items = FileObjs(first)
                    /\ DOMAIN ledger = Range(FileObjs(first))
                    /\ \A o \in DOMAIN ledger : ledger[o] = <<first>>

NoCandidate == cli.config = <<>> /\ StatedFirst(disk) = None

ReturnsEmpty ==
    /\ pc # "exit" /\ log = <<>> /\ exitCode = {}
    /\ pc \in {"done", "built"} => options.items = <<EmptyObj>> /\ ~options.isArray /\ ledger = <<>>

\* C21 as stated: without --config the default search loads exactly the first
\* existing candidate in base-name-major, extension-minor order, and when no
\* candidate exists loadConfig returns {} with an empty ledger and neither
\* exits nor logs an error.
C21_DefaultSearchFirstOrEmpty ==
    /\ SearchedFirstOnly
    /\ NoCandidate => ReturnsEmpty

\* C21 amended: the same, the empty result being that of a run without
\* --config-name, --extends and --merge.
C21_DefaultSearchFirstOrEmptyUnlessSelected ==
    /\ SearchedFirstOnly
    /\ (NoCandidate /\ ~cli.configName.given /\ cli.extends = <<>> /\ ~cli.merge) => ReturnsEmpty

C21_Witness ==
    /\ pc = "select"
    /\ cli.config = <<>>
    /\ {FileA, FileC} \subseteq disk
    /\ options.items = FileObjs(FileA)

C21_WitnessEmpty ==
    /\ pc = "done"
    /\ NoCandidate
    /\ options.items = <<EmptyObj>>


\* ---------------------------------------------------------------------------
\* runWebpack and createCompiler: the env of the configuration function,
\* NODE_ENV, the order of loadConfig, buildConfig and the build engine, and
\* the signal listeners of the watch mode.  A JavaScript value is "undefined"
\* or the text of the value; an env entry is "absent", "true" or a string.
\* ---------------------------------------------------------------------------

EnvKeys == {"WEBPACK_WATCH", "WEBPACK_BUILD", "WEBPACK_BUNDLE", "WEBPACK_SERVE"}

\* the mappings --env can give for the keys the CLI itself reads or writes
UserEnvs ==
    {u \in [EnvKeys -> {"absent", "true", "x"}] :
        /\ u["WEBPACK_BUNDLE"] # "true"
        /\ u["WEBPACK_SERVE"] # "x"}

RunInputs ==
    [isWatchCommand : BOOLEAN,
     watch : {"undefined", "true", "false"},       \* --watch, --no-watch
     env : UserEnvs,
     configWatch : {"undefined", "true", "false"}, \* `watch` of the configuration
     configNodeEnv : {"undefined", "production"},
     nodeEnv : {"undefined", "development"},
     stdin : BOOLEAN,                              \* watchOptions.stdin
     processNodeEnv : {"undefined", "test"}]       \* NODE_ENV of the environment

EXIT_SIGNALS == <<"SIGINT", "SIGTERM">>

\* a bound on the number of signals delivered to the process
MaxSignals == 3

\* { ...defaults, ...options.env }
Spread2(defaults, userEnv) ==
    [k \in EnvKeys |-> IF userEnv[k] # "absent" THEN userEnv[k]
                       ELSE IF k \in defaults THEN "true" ELSE "absent"]

\* line 2474: isWatchCommand || options.watch
WatchEnv(isWatchCommand, watch) == isWatchCommand \/ watch = "true"

\* lines 2473-2476
EnvOf(in) ==
    IF WatchEnv(in.isWatchCommand, in.watch)
    THEN Spread2({"WEBPACK_WATCH"}, in.env)
    ELSE Spread2({"WEBPACK_BUNDLE", "WEBPACK_BUILD"}, in.env)

RwInit ==
    /\ rwPc = "start"
    /\ rwIn \in RunInputs
    /\ rwOptions = [watch |-> rwIn.watch, isWatchingLikeCommand |-> FALSE]
    /\ rwArgv = <<>>
    /\ rwNodeEnv = rwIn.processNodeEnv
    /\ rwTrace = <<>>
    /\ rwFnCalls = <<>>
    /\ rwItem = <<>>
    /\ rwCompiler = <<>>
    /\ rwLog = <<>>
    /\ rwForce = FALSE
    /\ rwSignals = <<>>
    /\ rwCloseCalls = 0
    /\ rwClosing = FALSE
    /\ rwExit = {}
    /\ EarlyIdle
    /\ RootIdle
    /\ SrvIdle

\* runWebpack up to the call of createCompiler (lines 2473-2485)
RunWebpack ==
    /\ rwPc = "start"
    /\ rwArgv' = [watch |-> rwOptions.watch, env |-> EnvOf(rwIn)]
    /\ rwOptions' = IF rwIn.isWatchCommand
                    THEN [watch |-> "true", isWatchingLikeCommand |-> TRUE]
                    ELSE rwOptions
    /\ rwPc' = "createCompiler"
    /\ UNCHANGED <<rwIn, rwNodeEnv, rwTrace, rwFnCalls, rwItem, rwCompiler, rwLog, rwForce,
                   rwSignals, rwCloseCalls, rwClosing, rwExit>>
    /\ UNCHANGED notRwVars

\* a variant in which --node-env wins
NodeEnvPreferringNodeEnv(configNodeEnv, nodeEnv, current) ==
    IF nodeEnv # "undefined" THEN nodeEnv
    ELSE IF configNodeEnv # "undefined" THEN configNodeEnv
    ELSE current

\* lines 2355-2359
NodeEnvOf(configNodeEnv, nodeEnv, current) ==
    IF configNodeEnv # "undefined" THEN configNodeEnv
    ELSE IF nodeEnv # "undefined" THEN nodeEnv
    ELSE current

SetNodeEnv ==
    /\ rwPc = "createCompiler"
    /\ rwNodeEnv' = NodeEnvOf(rwIn.configNodeEnv, rwIn.nodeEnv, rwNodeEnv)
    /\ rwTrace' = Append(rwTrace, "NODE_ENV")
    /\ rwPc' = "loadConfig"
    /\ UNCHANGED <<rwIn, rwOptions, rwArgv, rwFnCalls, rwItem, rwCompiler, rwLog, rwForce,
                   rwSignals, rwCloseCalls, rwClosing, rwExit>>
    /\ UNCHANGED notRwVars

\* line 2361: loadConfig loads the file and calls the function it exports
\* with (argv.env, argv) (lines 1880, 1897)
RwLoadConfig ==
    /\ rwPc = "loadConfig"
    /\ rwTrace' = Append(rwTrace, "loadConfig")
    /\ rwFnCalls' = Append(rwFnCalls, [env |-> rwArgv.env, nodeEnv |-> rwNodeEnv])
    /\ rwItem' = [watch |-> rwIn.configWatch, mode |-> "undefined"]
    /\ rwPc' = "buildConfig"
    /\ UNCHANGED <<rwIn, rwOptions, rwArgv, rwNodeEnv, rwCompiler, rwLog, rwForce,
                   rwSignals, rwCloseCalls, rwClosing, rwExit>>
    /\ UNCHANGED notRwVars

EnvTruthy(x) == x # "absent"

\* line 2362: buildConfig; of internalBuildConfig the `watch` flag handed to
\* processArguments, the warning of lines 2233-2247 and the mode of lines
\* 2277-2286
RwBuildConfig ==
    /\ rwPc = "buildConfig"
    /\ rwTrace' = Append(rwTrace, "buildConfig")
    /\ LET originalWatchValue == rwItem.watch
           processed == IF rwOptions.watch # "undefined" THEN rwOptions.watch ELSE rwItem.watch
           warns == /\ rwOptions.isWatchingLikeCommand
                    /\ (originalWatchValue # "undefined" \/ rwArgv.watch # "undefined")
           mode == IF rwNodeEnv \in {"development", "production", "none"}
                   THEN rwNodeEnv ELSE rwItem.mode
       IN  /\ rwLog' = IF warns
                       THEN Append(rwLog, IF EnvTruthy(rwArgv.env["WEBPACK_WATCH"])
                                          THEN "warn: watch" ELSE "warn: serve")
                       ELSE rwLog
           /\ rwItem' = [watch |-> IF warns /\ EnvTruthy(rwArgv.env["WEBPACK_SERVE"])
                                   THEN "false" ELSE processed,
                         mode |-> mode]
    /\ rwPc' = "webpack"
    /\ UNCHANGED <<rwIn, rwOptions, rwArgv, rwNodeEnv, rwFnCalls, rwCompiler, rwForce,
                   rwSignals, rwCloseCalls, rwClosing, rwExit>>
    /\ UNCHANGED notRwVars

\* lines 2366-2390 and 2487-2527: the build engine creates the compiler or
\* throws; for a watching compiler the listeners are registered
CreateCompiler ==
    /\ rwPc = "webpack"
    /\ rwTrace' = Append(rwTrace, "webpack")
    /\ \E valid \in BOOLEAN :
         IF valid
         THEN /\ rwCompiler' = [watch |-> rwItem.watch, mode |-> rwItem.mode]
              /\ rwPc' = IF rwItem.watch = "true" THEN "running" ELSE "returned"
              /\ UNCHANGED <<rwLog, rwExit>>
         ELSE /\ rwLog' = Append(rwLog, "error")
              /\ rwExit' = {2}
              /\ rwPc' = "exit"
              /\ UNCHANGED rwCompiler
    /\ UNCHANGED <<rwIn, rwOptions, rwArgv, rwNodeEnv, rwFnCalls, rwItem, rwForce,
                   rwSignals, rwCloseCalls, rwClosing>>
    /\ UNCHANGED notRwVars

\* a listener that never forces the exit
NeverForced(needForceShutdown) == FALSE

\* line 2504: if (needForceShutdown)
Forced(needForceShutdown) == needForceShutdown

\* the listener of lines 2503-2518, registered for each of EXIT_SIGNALS
Listener(signal) ==
    /\ rwPc = "running"
    /\ Len(rwSignals) < MaxSignals
    /\ rwSignals' = Append(rwSignals, signal)
    /\ IF Forced(rwForce)
       THEN /\ rwExit' = {0}
            /\ rwPc' = "exit"
            /\ rwTrace' = Append(rwTrace, "signal exit")
            /\ UNCHANGED <<rwLog, rwForce, rwCloseCalls, rwClosing>>
       ELSE /\ rwLog' = Append(rwLog, "info: Gracefully shutting down")
            /\ rwForce' = TRUE
            /\ rwCloseCalls' = rwCloseCalls + 1
            /\ rwClosing' = TRUE
            /\ UNCHANGED <<rwPc, rwTrace, rwExit>>
    /\ UNCHANGED <<rwIn, rwOptions, rwArgv, rwNodeEnv, rwFnCalls, rwItem, rwCompiler>>
    /\ UNCHANGED notRwVars

\* the callback of compiler.close (lines 2514-2516)
CloseCallback ==
    /\ rwPc = "running"
    /\ rwClosing
    /\ rwClosing' = FALSE
    /\ rwExit' = {0}
    /\ rwPc' = "exit"
    /\ rwTrace' = Append(rwTrace, "close exit")
    /\ UNCHANGED <<rwIn, rwOptions, rwArgv, rwNodeEnv, rwFnCalls, rwItem, rwCompiler, rwLog,
                   rwForce, rwSignals, rwCloseCalls>>
    /\ UNCHANGED notRwVars

\* the end of stdin (lines 2522-2527)
StdinEnd ==
    /\ rwPc = "running"
    /\ rwIn.stdin
    /\ rwExit' = {0}
    /\ rwPc' = "exit"
    /\ rwTrace' = Append(rwTrace, "stdin exit")
    /\ UNCHANGED <<rwIn, rwOptions, rwArgv, rwNodeEnv, rwFnCalls, rwItem, rwCompiler, rwLog,
                   rwForce, rwSignals, rwCloseCalls, rwClosing>>
    /\ UNCHANGED notRwVars

\* the callback of the build engine called with an error (lines 2412-2416)
CallbackError ==
    /\ rwPc = "running"
    /\ rwLog' = Append(rwLog, "error")
    /\ rwExit' = {2}
    /\ rwPc' = "exit"
    /\ rwTrace' = Append(rwTrace, "callback exit")
    /\ UNCHANGED <<rwIn, rwOptions, rwArgv, rwNodeEnv, rwFnCalls, rwItem, rwCompiler,
                   rwForce, rwSignals, rwCloseCalls, rwClosing>>
    /\ UNCHANGED notRwVars

RwNext ==
    \/ RunWebpack
    \/ SetNodeEnv
    \/ RwLoadConfig
    \/ RwBuildConfig
    \/ CreateCompiler
    \/ \E k \in 1..Len(EXIT_SIGNALS) : Listener(EXIT_SIGNALS[k])
    \/ CloseCallback
    \/ StdinEnd
    \/ CallbackError

SpecRun == RwInit /\ [][RwNext]_vars


\* what the env of the configuration function is to hold for key k: what the
\* user supplied with --env, else true for the keys of the mode of the build
StatedEnv(k, modeKeys) ==
    IF rwIn.env[k] # "absent" THEN rwIn.env[k]
    ELSE IF k \in modeKeys THEN "true" ELSE "absent"

\* C22: with the watch command or --watch the env passed to a configuration
\* function holds WEBPACK_WATCH=true and neither WEBPACK_BUILD nor
\* WEBPACK_BUNDLE, otherwise WEBPACK_BUILD=true and WEBPACK_BUNDLE=true and
\* no WEBPACK_WATCH (entries the user supplied with --env apart); and with
\* the watch command the compiler is created with watch=true.
C22_WatchEnvAndWatchingCompiler ==
    /\ \A c \in 1..Len(rwFnCalls) :
         LET modeKeys == IF rwIn.isWatchCommand \/ rwIn.watch = "true"
                         THEN {"WEBPACK_WATCH"}
                         ELSE {"WEBPACK_BUILD", "WEBPACK_BUNDLE"}
         IN  \A k \in {"WEBPACK_WATCH", "WEBPACK_BUILD", "WEBPACK_BUNDLE"} :
                 rwFnCalls[c].env[k] = StatedEnv(k, modeKeys)
    /\ (rwPc # "idle" /\ rwIn.isWatchCommand /\ rwCompiler # <<>>) => rwCompiler.watch = "true"


\* C26: in watch mode the first signal, SIGINT or SIGTERM, calls
\* compiler.close once and does not exit; the callback of close exits with
\* code 0; a further signal of either kind before that exits with code 0 at
\* once; compiler.close is never called twice and no exit through a signal
\* has another code.
C26_SignalsShutDownOnce ==
    /\ [](rwCloseCalls <= 1)
    /\ []((rwTrace # <<>> /\ rwTrace[Len(rwTrace)] \in {"signal exit", "close exit"})
            => rwExit = {0})
    /\ [][/\ (rwSignals' # rwSignals /\ rwSignals = <<>>) =>
                (rwCloseCalls' = 1 /\ rwClosing' /\ rwExit' = {})
          /\ (rwSignals' # rwSignals /\ rwSignals # <<>>) =>
                (rwExit' = {0} /\ rwCloseCalls' = rwCloseCalls)
          /\ (rwClosing /\ ~rwClosing') => rwExit' = {0}]_vars

C26_Witness ==
    /\ rwSignals = <<"SIGINT", "SIGTERM">>
    /\ rwCloseCalls = 1
    /\ rwExit = {0}

\* C28: the configuration function is called with NODE_ENV already set to
\* configNodeEnv when that is a string, else to nodeEnv when that is a
\* string, else as it was; and createCompiler sets NODE_ENV, then runs
\* loadConfig, then buildConfig, then the build engine.
C28_NodeEnvThenLoadBuildCompile ==
    /\ \A c \in 1..Len(rwFnCalls) :
         rwFnCalls[c].nodeEnv =
             (IF rwIn.configNodeEnv # "undefined" THEN rwIn.configNodeEnv
              ELSE IF rwIn.nodeEnv # "undefined" THEN rwIn.nodeEnv
              ELSE rwIn.processNodeEnv)
    /\ LET order == <<"NODE_ENV", "loadConfig", "buildConfig", "webpack">>
       IN  \A k \in 1..Len(rwTrace) : k <= 4 => rwTrace[k] = order[k]
    /\ rwFnCalls # <<>> => (Len(rwTrace) >= 2 /\ rwTrace[1] = "NODE_ENV")
    /\ rwItem # <<>> => Len(rwTrace) >= 2
    /\ rwCompiler # <<>> => Len(rwTrace) >= 4

C28_Witness ==
    /\ rwPc = "returned"
    /\ rwIn.configNodeEnv = "production"
    /\ rwIn.nodeEnv = "development"
    /\ rwIn.processNodeEnv = "test"
    /\ rwFnCalls # <<>>
    /\ rwFnCalls[1].nodeEnv = "production"
    /\ rwCompiler # <<>>
    /\ rwCompiler.mode = "production"


\* C23: for an option of more than one inferred kind, after an occurrence the
\* parsed value is the supplied value, as a number when the kinds hold Number
\* and the text is numeric and as the text otherwise; for a multiple option
\* it is always a list, which ends with that value and, without a default,
\* holds one item for every occurrence.
C23_MixedKindsCoerceAndAccumulate ==
    (optPc = "compiled" /\ Cardinality(Inferred(optDef).types) > 1 /\ Len(supplied) >= 1) =>
        LET types == Inferred(optDef).types
            last == Supplied(types, supplied[Len(supplied)])
        IN  IF optDef.multiple
            THEN /\ optValue.kind = "list"
                 /\ optValue.items # <<>>
                 /\ optValue.items[Len(optValue.items)] = last
                 /\ ~Truthy(optDef.defaultValue) => Len(optValue.items) = Len(supplied)
            ELSE optValue = Scalar(last)


\* C25: in resolveExtends no file that already contributed to a
\* configuration is loaded again on its behalf, and the depth of the
\* recursion is at most the number of distinct configuration files.
C25_CheckBeforeLoadBoundsRecursion ==
    \A i \in DOMAIN res :
        /\ NoDup(heap[res[i].item].from \o res[i].loaded)
        /\ res[i].depth <= Cardinality(Files)


\* ---------------------------------------------------------------------------
\* run: the root action of the program (lines 1683-1782).  No command is
\* registered before the first parse; the root action loads the command the
\* line names and parses [command, ...operands] again.
\* ---------------------------------------------------------------------------

\* the first operand of the command line: none, a built-in command, an
\* external command, the help command, the path of an existing file, a word
Operands == {"undefined", "build", "serve", "help", "./entry.js", "unknown"}

BuiltInCommands == {"build"}
ExternalCommands == {"serve"}

RootInputs ==
    [operand : Operands,
     help : {"undefined", "true", "verbose", "other"},   \* options.help
     version : BOOLEAN,                                  \* options.version is defined
     loading : {"registered", "passed over", "exit"}]    \* what loadCommandByName ends in

\* a bound on the number of times the root action is entered
MaxEntries == 3

RootInit ==
    /\ rootPc = "parse"
    /\ rootIn \in RootInputs
    /\ rootArgs = IF rootIn.operand = "undefined" THEN <<>> ELSE <<rootIn.operand>>
    /\ isInternalActionCalled = FALSE
    /\ rootBodies = 0
    /\ rootRegistered = {}
    /\ rootRan = <<>>
    /\ rootLog = <<>>
    /\ rootExit = {}
    /\ EarlyIdle
    /\ RwIdle
    /\ SrvIdle

\* program.parseAsync: the action of the registered command the first
\* argument names, else the root action
ParseAsync ==
    /\ rootPc = "parse"
    /\ IF rootArgs # <<>> /\ rootArgs[1] \in rootRegistered
       THEN /\ rootRan' = Append(rootRan, rootArgs[1])
            /\ rootPc' = "ran"
       ELSE /\ rootPc' = "root"
            /\ UNCHANGED rootRan
    /\ UNCHANGED <<rootIn, rootArgs, isInternalActionCalled, rootBodies, rootRegistered,
                   rootLog, rootExit>>
    /\ UNCHANGED notRootVars

RootExits(msg, code) ==
    /\ rootLog' = Append(rootLog, msg)
    /\ rootExit' = {code}
    /\ rootPc' = "exit"

\* a guard that lets the action in again
NeverCalled(called) == FALSE

\* line 1691
AlreadyCalled(called) == called

\* the root action up to the call of loadCommandByName (lines 1690-1773)
RootAction ==
    /\ rootPc = "root"
    /\ rootBodies < MaxEntries
    /\ IF AlreadyCalled(isInternalActionCalled)
       THEN /\ RootExits("No commands found to run", 2)
            /\ UNCHANGED <<isInternalActionCalled, rootBodies, rootArgs>>
       ELSE /\ isInternalActionCalled' = TRUE
            /\ rootBodies' = rootBodies + 1
            /\ LET hasOperand == rootArgs # <<>>
                   operand == IF hasOperand THEN rootArgs[1] ELSE "build"
                   isHelpOption == rootIn.help # "undefined"
               IN  IF isHelpOption \/ operand = "help"
                   THEN /\ IF isHelpOption /\ rootIn.help = "other"
                           THEN RootExits("Unknown value for '--help' option", 2)
                           ELSE RootExits("help", 0)
                        /\ UNCHANGED rootArgs
                   ELSE IF rootIn.version
                   THEN /\ RootExits("version", 0)
                        /\ UNCHANGED rootArgs
                   ELSE IF operand \in BuiltInCommands \cup ExternalCommands
                   THEN /\ rootArgs' = <<operand>>
                        /\ rootPc' = "load"
                        /\ UNCHANGED <<rootLog, rootExit>>
                   ELSE IF operand = "./entry.js"
                   THEN /\ rootArgs' = <<"build", operand>>
                        /\ rootPc' = "load"
                        /\ UNCHANGED <<rootLog, rootExit>>
                   ELSE /\ RootExits("Unknown command or entry", 2)
                        /\ UNCHANGED rootArgs
    /\ UNCHANGED <<rootIn, rootRegistered, rootRan>>
    /\ UNCHANGED notRootVars

\* loadCommandByName(commandToRun) (lines 1745, 1752), then the parse of
\* lines 1777-1779: a built-in command is registered or the process exits;
\* an external command may also be passed over (lines 1257-1265)
LoadCommandByName ==
    /\ rootPc = "load"
    /\ LET outcome == IF rootArgs[1] \in BuiltInCommands /\ rootIn.loading = "passed over"
                      THEN "registered" ELSE rootIn.loading
       IN  IF outcome = "exit"
           THEN /\ RootExits("Unable to load the command", 2)
                /\ UNCHANGED rootRegistered
           ELSE /\ rootRegistered' = IF outcome = "registered"
                                     THEN rootRegistered \cup {rootArgs[1]}
                                     ELSE rootRegistered
                /\ rootPc' = "parse"
                /\ UNCHANGED <<rootLog, rootExit>>
    /\ UNCHANGED <<rootIn, rootArgs, isInternalActionCalled, rootBodies, rootRan>>
    /\ UNCHANGED notRootVars

RootNext == ParseAsync \/ RootAction \/ LoadCommandByName

SpecRoot == RootInit /\ [][RootNext]_vars

\* C27: the body of the root action runs at most once; a parse that comes
\* back to the root action logs 'No commands found to run' and exits with
\* code 2; a run ends in the action of exactly one registered command or in
\* an exit, after a bounded number of dispatches.
C27_RootActionRunsOnce ==
    /\ [](/\ rootBodies <= 1
          /\ Len(rootRan) <= 1
          /\ \A k \in 1..Len(rootRan) : rootRan[k] \in rootRegistered
          /\ rootPc = "ran" => (Len(rootRan) = 1 /\ rootExit = {})
          /\ rootPc = "exit" => (rootRan = <<>> /\ rootExit # {})
          /\ rootPc \notin {"ran", "exit", "idle"} => ENABLED RootNext)
    /\ [][(rootPc = "root" /\ isInternalActionCalled) =>
             /\ rootLog' = Append(rootLog, "No commands found to run")
             /\ rootExit' = {2}
             /\ rootPc' = "exit"
             /\ rootBodies' = rootBodies]_vars

C27_Witness ==
    /\ rootPc = "exit"
    /\ rootIn.operand = "serve"
    /\ rootIn.loading = "passed over"
    /\ rootBodies = 1
    /\ rootLog = <<"No commands found to run">>
    /\ rootExit = {2}


\* ======================================================================
\* The serve command (src/unnamed/part_000): routing of the parsed options,
\* reconciliation of the dev-server options of each compiler, the check of
\* the ports and the start of the servers.
\* ======================================================================

ModeKey == <<"m", "o", "d", "e">>
OpenKey == <<"o", "p", "e", "n">>
PortKey == <<"p", "o", "r", "t">>
WebSocketServerKey ==
    <<"w", "e", "b", "S", "o", "c", "k", "e", "t", "S", "e", "r", "v", "e", "r">>
FooBarKey == <<"f", "o", "o", "B", "a", "r">>

\* cli.getBuiltInOptions(): the names of the built-in options
BuiltInOptions == CoreFlags \cup {ModeKey, OpenKey}

\* loadDevServerOptions(): the names of the dev-server flags; `open` is also
\* the name of a built-in option; no flag carries a processor
DevServerFlags == {PortKey, OpenKey, ToKebabCase(WebSocketServerKey)}

\* a bound on the number of configurations (compilers)
MaxCompilers == 2

\* values of options.devServer and of its `port`
Absent == [kind |-> "absent", n |-> 0, s |-> <<>>]
PortNumber(n) == [kind |-> "number", n |-> n, s |-> <<>>]
PortString(s) == [kind |-> "string", n |-> 0, s |-> s]
JsNaN == [kind |-> "nan", n |-> 0, s |-> <<>>]

ConfigPorts ==
    {Absent, PortNumber(0), PortNumber(8080), PortString(<<"8", "0", "8", "0">>),
     PortString(<<"a", "u", "t", "o">>), PortString(<<"0">>)}

DevServerKeys == {"port", "webSocketServer"}

DevServerObject(port) ==
    [kind |-> "object", keys |-> [k \in DevServerKeys |-> IF k = "port" THEN port ELSE Absent]]
DevServerUndefined == [kind |-> "undefined", keys |-> [k \in DevServerKeys |-> Absent]]
DevServerFalse == [kind |-> "false", keys |-> [k \in DevServerKeys |-> Absent]]

DevServers == {DevServerUndefined, DevServerFalse} \cup {DevServerObject(p) : p \in ConfigPorts}

\* Object.keys of an object
KeysOf(obj) == {k \in DevServerKeys : obj.keys[k] # Absent}

\* the value the command line gives an option
CliValue(name) ==
    IF name = PortKey THEN PortNumber(8080) ELSE PortString(<<"w", "s">>)

\* the property of the dev-server options a flag is written to
PathOfFlag(kebabName) == IF kebabName = PortKey THEN "port" ELSE "webSocketServer"

\* the parsed options of a run, in the order of their keys
ParsedOptions ==
    {<<>>,
     <<FooBarKey>>,
     <<ModeKey, PortKey>>,
     <<OpenKey, WebSocketServerKey>>,
     <<PortKey, FooBarKey, ModeKey>>,
     <<WebSocketServerKey, PortKey, OpenKey>>}

\* lines 158-170: the `values` handed to processArguments
RECURSIVE ValuesFor(_)
ValuesFor(names) ==
    IF names = <<>> THEN <<>>
    ELSE (IF ToKebabCase(Head(names)) \in DevServerFlags
          THEN <<ToKebabCase(Head(names))>> ELSE <<>>) \o ValuesFor(Tail(names))

\* lines 71-93 for the keys `names`: those routed to the namespace `builtIn`
RECURSIVE Routed(_, _)
Routed(names, builtIn) ==
    IF names = <<>> THEN <<>>
    ELSE (IF (ToKebabCase(Head(names)) \in BuiltInOptions) = builtIn
          THEN <<Head(names)>> ELSE <<>>) \o Routed(Tail(names), builtIn)

\* what processArguments returns for the values of a run
OutcomesFor(names) ==
    {NoProblems} \cup
    (IF ValuesFor(Routed(names, FALSE)) = <<>> THEN {}
     ELSE {Problems(l) : l \in ProblemLists(Range(ValuesFor(Routed(names, FALSE))))})

ServeInputs ==
    {[options |-> o, compilers |-> c, problems |-> NoProblems, created |-> b] :
        o \in ParsedOptions,
        c \in UNION {[1..n -> DevServers] : n \in 1..MaxCompilers},
        b \in BOOLEAN}
    \cup
    {[options |-> o, compilers |-> c, problems |-> p, created |-> TRUE] :
        o \in {<<WebSocketServerKey, PortKey, OpenKey>>},
        c \in {<<DevServerFalse, DevServerObject(Absent)>>},
        p \in OutcomesFor(<<WebSocketServerKey, PortKey, OpenKey>>)}

SrvInit ==
    /\ srvPc = "start"
    /\ srvIn \in ServeInputs
    /\ webpackCLIOptions = <<>>
    /\ devServerCLIOptions = <<>>
    /\ srvCompilers = <<>>
    /\ srvQueue = <<>>
    /\ srvCalls = <<>>
    /\ srvProblems = <<>>
    /\ usedPorts = <<>>
    /\ servers = <<>>
    /\ srvLog = <<>>
    /\ srvThrown = FALSE
    /\ srvExit = {}
    /\ EarlyIdle
    /\ RwIdle
    /\ RootIdle

\* lines 54-108: the routing loop
Route ==
    /\ srvPc = "start"
    /\ webpackCLIOptions' = Routed(srvIn.options, TRUE)
    /\ devServerCLIOptions' = Routed(srvIn.options, FALSE)
    /\ srvPc' = "compiler"
    /\ UNCHANGED <<srvIn, srvCompilers, srvQueue, srvCalls, srvProblems, usedPorts, servers,
                   srvLog, srvThrown, srvExit>>
    /\ UNCHANGED notSrvVars

\* lines 139-144: compilersForDevServer, as indices into the compilers
CompilersForDevServer(compilers) ==
    LET possibleCompilers ==
            SelectSeq([i \in 1..Len(compilers) |-> i],
                      LAMBDA i : compilers[i].kind = "object")
    IN  IF Len(possibleCompilers) > 0 THEN possibleCompilers ELSE <<1>>

\* lines 110-145: createCompiler either exits the process with code 2 or
\* returns the compiler
ServeCreateCompiler ==
    /\ srvPc = "compiler"
    /\ IF srvIn.created
       THEN /\ srvCompilers' = srvIn.compilers
            /\ srvQueue' = CompilersForDevServer(srvIn.compilers)
            /\ srvPc' = "loop"
            /\ UNCHANGED srvExit
       ELSE /\ srvExit' = {2}
            /\ srvPc' = "exit"
            /\ UNCHANGED <<srvCompilers, srvQueue>>
    /\ UNCHANGED <<srvIn, webpackCLIOptions, devServerCLIOptions, srvCalls, srvProblems,
                   usedPorts, servers, srvLog, srvThrown>>
    /\ UNCHANGED notSrvVars

\* problem.type.replace("-", " "): the first hyphen only
RECURSIVE ReplaceFirstHyphen(_)
ReplaceFirstHyphen(str) ==
    IF str = <<>> THEN <<>>
    ELSE IF Head(str) = "-" THEN <<" ">> \o Tail(str)
    ELSE <<Head(str)>> \o ReplaceFirstHyphen(Tail(str))

\* lines 193-203: what the serve command logs for one problem
ServeLinesOf(problem) ==
    <<ProblemLine(CapitalizeFirstLetter(ReplaceFirstHyphen(problem.type)),
                  IF JsTruthy(problem.value) THEN problem.value.v ELSE None,
                  problem.argument,
                  IF JsTruthy(problem.index) THEN problem.index.v ELSE None)>>
    \o (IF JsTruthy(problem.expected) THEN <<ExpectedLine(problem.expected.v)>> ELSE <<>>)

\* lines 175-205
ServeLoggedFor(problems) ==
    LET grouped == GroupBy(problems)
    IN  Flatten([k \in 1..Len(grouped) |-> ServeLinesOf(grouped[k])])

\* a variant of the spread in which `result` is the devServer object itself
NoCopy(obj) == [shared |-> TRUE, obj |-> obj]

\* line 171: { ...compilerForDevServer.options.devServer }
SpreadCopy(obj) == [shared |-> FALSE, obj |-> obj]

\* processArguments without problems: every value is written to its path
RECURSIVE WriteValues(_, _)
WriteValues(obj, values) ==
    IF values = <<>> THEN obj
    ELSE WriteValues([obj EXCEPT !.keys[PathOfFlag(Head(values))] = CliValue(Head(values))],
                     Tail(values))

\* `if (devServerOptions.port)`
PortTruthy(port) ==
    CASE port.kind = "number" -> port.n # 0
      [] port.kind = "string" -> port.s # <<>>
      [] OTHER -> FALSE

RECURSIVE DigitsValue(_, _)
DigitsValue(str, acc) ==
    IF str = <<>> THEN acc
    ELSE DigitsValue(Tail(str), acc * 10 + (IndexIn(Head(str), Digits) - 1))

\* Number(devServerOptions.port)
PortToNumber(port) ==
    CASE port.kind = "number" -> port
      [] port.kind = "string" ->
            IF \A i \in 1..Len(port.s) : port.s[i] \in Range(Digits)
            THEN PortNumber(DigitsValue(port.s, 0))
            ELSE JsNaN
      [] OTHER -> JsNaN

\* Array.prototype.includes compares with SameValueZero: NaN equals NaN
SameValueZero(a, b) == a = b

Includes(list, x) == \E i \in 1..Len(list) : SameValueZero(list[i], x)

UniquePorts == "Unique ports must be specified for each devServer option"
NoDevServers == "No dev server configurations to run"
StartFailed == "dev server failed to start"

\* lines 147-239: one iteration of the loop over compilersForDevServer
ServeOne ==
    /\ srvPc = "loop"
    /\ srvQueue # <<>>
    /\ LET i == Head(srvQueue)
           devServer == srvCompilers[i]
           values == ValuesFor(devServerCLIOptions)
           copy == SpreadCopy(devServer)
           problems == IF values = <<>> THEN NoProblems ELSE srvIn.problems
           result == IF problems.isNull THEN WriteValues(copy.obj, values) ELSE copy.obj
           call == [compiler |-> i, values |-> values, result |-> result]
       IN  IF devServer.kind = "false"
           THEN /\ srvQueue' = Tail(srvQueue)
                /\ UNCHANGED <<srvPc, srvCompilers, srvCalls, srvProblems, usedPorts, servers,
                               srvLog, srvThrown, srvExit>>
           ELSE /\ srvCalls' = Append(srvCalls, call)
                /\ srvProblems' = problems
                /\ srvCompilers' = IF copy.shared
                                   THEN [srvCompilers EXCEPT ![i] = result]
                                   ELSE srvCompilers
                /\ IF ~problems.isNull
                   THEN /\ srvLog' = srvLog \o ServeLoggedFor(problems.list)
                        /\ srvExit' = {2}
                        /\ srvPc' = "exit"
                        /\ UNCHANGED <<srvQueue, usedPorts, servers, srvThrown>>
                   ELSE IF PortTruthy(result.keys["port"])
                           /\ Includes(usedPorts, PortToNumber(result.keys["port"]))
                   THEN /\ srvThrown' = TRUE
                        /\ srvLog' = Append(srvLog, UniquePorts)
                        /\ srvPc' = "thrown"
                        /\ UNCHANGED <<srvQueue, usedPorts, servers, srvExit>>
                   ELSE /\ usedPorts' = IF PortTruthy(result.keys["port"])
                                        THEN Append(usedPorts, PortToNumber(result.keys["port"]))
                                        ELSE usedPorts
                        /\ \E started \in BOOLEAN :
                              IF started
                              THEN /\ servers' = Append(servers, i)
                                   /\ srvQueue' = Tail(srvQueue)
                                   /\ UNCHANGED <<srvPc, srvLog, srvExit>>
                              ELSE /\ srvLog' = Append(srvLog, StartFailed)
                                   /\ srvExit' = {2}
                                   /\ srvPc' = "exit"
                                   /\ UNCHANGED <<srvQueue, servers>>
                        /\ UNCHANGED srvThrown
    /\ UNCHANGED <<srvIn, webpackCLIOptions, devServerCLIOptions>>
    /\ UNCHANGED notSrvVars

\* lines 241-244: after the loop
ServeEnd ==
    /\ srvPc = "loop"
    /\ srvQueue = <<>>
    /\ IF Len(servers) = 0
       THEN /\ srvLog' = Append(srvLog, NoDevServers)
            /\ srvExit' = {2}
            /\ srvPc' = "exit"
       ELSE /\ srvPc' = "served"
            /\ UNCHANGED <<srvLog, srvExit>>
    /\ UNCHANGED <<srvIn, webpackCLIOptions, devServerCLIOptions, srvCompilers, srvQueue,
                   srvCalls, srvProblems, usedPorts, servers, srvThrown>>
    /\ UNCHANGED notSrvVars

SrvNext == Route \/ ServeCreateCompiler \/ ServeOne \/ ServeEnd

SpecServe == SrvInit /\ [][SrvNext]_vars


\* ---- C24 ----
\* C24: For every list of problems, the lines the serve command logs are the
\* lines buildConfig logs for the same list (the same capitalised type text
\* for every type, also those with more than one hyphen, the same value,
\* index and expected rendering, the same grouping order), and the process
\* exits with code 2.
C24_ServeLogsAsBuildConfig ==
    (srvPc = "exit" /\ srvProblems # <<>> /\ ~srvProblems.isNull) =>
        /\ srvLog = LoggedFor(srvProblems.list)
        /\ srvExit = {2}

\* ---- C29 ----
StatedKeysOf(names, builtIn) ==
    {names[k] : k \in {j \in 1..Len(names) :
                          (ToKebabCase(names[j]) \in BuiltInOptions) = builtIn}}

\* C29: Every parsed option key is routed to exactly one namespace: to the
\* webpack options when its kebab-cased name is the name of a built-in option
\* (also when a dev-server flag has that name), otherwise to the dev-server
\* options; the two key sets are disjoint and cover the parsed options; and
\* the reconciliation writes into a copy: the devServer object of every
\* compiler keeps exactly its top-level keys.
C29_RoutingPartitionsAndCopies ==
    /\ srvPc \notin {"idle", "start"} =>
          /\ Range(webpackCLIOptions) = StatedKeysOf(srvIn.options, TRUE)
          /\ Range(devServerCLIOptions) = StatedKeysOf(srvIn.options, FALSE)
          /\ Range(webpackCLIOptions) \cap Range(devServerCLIOptions) = {}
          /\ Range(webpackCLIOptions) \cup Range(devServerCLIOptions) = Range(srvIn.options)
    /\ srvPc \in {"loop", "served", "thrown", "exit"} /\ srvCompilers # <<>> =>
          \A i \in 1..Len(srvCompilers) :
              KeysOf(srvCompilers[i]) = KeysOf(srvIn.compilers[i])

C29_Witness ==
    /\ srvPc = "served"
    /\ srvIn.options = <<WebSocketServerKey, PortKey, OpenKey>>
    /\ webpackCLIOptions = <<OpenKey>>
    /\ \E k \in 1..Len(srvCalls) :
          /\ KeysOf(srvCalls[k].result) = {"port", "webSocketServer"}
          /\ KeysOf(srvCompilers[srvCalls[k].compiler]) = {}
          /\ srvCompilers[srvCalls[k].compiler].kind = "object"

\* ---- C30 ----
\* the port of a processed configuration is numeric
Numeric(port) == PortTruthy(port) /\ PortToNumber(port) # JsNaN

\* the call `k` specifies the numeric port of an earlier call
RepeatsPort(k) ==
    /\ Numeric(srvCalls[k].result.keys["port"])
    /\ \E j \in 1..(k - 1) :
          /\ Numeric(srvCalls[j].result.keys["port"])
          /\ PortToNumber(srvCalls[j].result.keys["port"])
                = PortToNumber(srvCalls[k].result.keys["port"])

\* C30: Dev servers are started one at a time in compiler order; the 'Unique
\* ports must be specified' error is raised if and only if the configuration
\* about to be started specifies the numeric port of a configuration
\* processed before it (no port, port 0 and a non-numeric port such as 'auto'
\* never raise it); and the process exits with code 2 when no server was
\* started.
C30_UniquePortsIffRepeatedNumericPort ==
    /\ \A a, b \in 1..Len(servers) : a < b => servers[a] < servers[b]
    /\ srvThrown => srvCalls # <<>> /\ RepeatsPort(Len(srvCalls))
    /\ ~srvThrown => \A k \in 1..Len(srvCalls) :
                        (srvProblems.isNull \/ k < Len(srvCalls)) => ~RepeatsPort(k)
    /\ srvPc = "served" => servers # <<>>
    /\ (srvPc = "exit" /\ servers = <<>>) => srvExit = {2}

====
